---- MODULE Spec2Model ----
(***************************************************************************)
(* Inventory and order consistency of the e-commerce backend: the stock    *)
(* methods of Producto (hayStock, aumentarStock) and the status machine of *)
(* Pedido (cambiarEstado, puedeSerCancelado, cancelar, the beforeUpdate    *)
(* hook), as written in the Sequelize models.                              *)
(*                                                                         *)
(* The state is the content of the database tables.  Every action is one   *)
(* call of a model method on an instance freshly loaded with findByPk,     *)
(* including every save() the call starts.                                 *)
(***************************************************************************)
EXTENDS Integers, Sequences, FiniteSets, TLC

\* ---------------------------------------------------------------- bounds
MaxStock == 2
MaxCant == 1
MaxReloj == 3
\* The deepest nesting of Subcategoria.hooks.afterUpdate that is followed.
MaxAnidado == 3

\* ------------------------------------------------------------- universes
\* Primary keys of the rows of productos and pedidos.
Productos == {1, 2}
Pedidos == {1}

\* Primary keys of categorias and subcategorias (autoIncrement ids).
CatIds == {1, 2, 3}
SubIds == {1, 2, 3}
\* Users, primary keys of carritos, the quantities a caller may pass and
\* the prices a product may have.
Usuarios == {1, 2}
LineaIds == {1, 2, 3}
CantidadesLinea == {0, 1, 2}
Precios == {1, 2}
\* Primary keys of productos, the next free one included.
ProductoIds == Productos \union {3}

\* Arguments a caller can pass as "cantidad" to the stock methods.
Cantidades == (0 - MaxCant)..MaxCant

\* One DetallePedido row as cancelar reads it: detalle.productoId, detalle.cantidad.
Detalle == [productoId : Productos, cantidad : 1..MaxCant, precioUnitario : {1}]

\* The rows DetallePedido.findAll({where: {pedidoId}}) can return, in order:
\* at most as many rows as there are products; two rows may name one product.
MaxLineas == Cardinality(Productos)
Lineas == UNION {[1..n -> Detalle] : n \in 0..MaxLineas}

\* A DATE column that allows NULL: <<>> is NULL, <<t>> is the instant t.
Nulo == <<>>
Fecha(t) == <<t>>

\* Pedido.estado: the ENUM of the column and its isIn validator.
EstadosEnum == {"pendiente", "pagado", "enviado", "cancelado"}

\* The local list estadosValidos of cambiarEstado.
estadosValidos == {"pendiente", "pagado", "enviado", "cancelado"}

\* Values a caller can pass to cambiarEstado: the five statuses of the
\* order life cycle and one string that is no status at all.
EstadosEntrada == {"pendiente", "pagado", "enviado", "entregado", "cancelado", "devuelto"}

\* Error messages thrown by the code.
SinError == "ninguno"
ErrStockInsuficiente == "Stock insuficiente"
ErrEstadoNoValido == "Estado no valido, debe ser pendiente, pagado, enviado o cancelado"
ErrEstadoIsIn == "El estado debe ser pendiente, pagado, enviado o cancelado"
ErrNoCancelable == "No se puede cancelar este pedido"
ErrNoEliminar == "No se pueden eliminar pedidos, solo se pueden cancelar"
ErrCategoriaNoExiste == "La categoria seleccionada no existe"
ErrCategoriaInactiva == "No se puede crear una subcategoria para una categoria inactiva"
ErrModuloNoEncontrado == "Cannot find module"
ErrReferencia == "ReferenceError"
ErrSubcategoriaNoExiste == "La subcategoria seleccionada no existe"
ErrSubcategoriaInactiva == "No se puede crear una subcategoria en un producto en una subcategoria inactiva"
ErrProductoCategoriaInactiva == "No se puede crear un producto en una categoria inactiva"
ErrNoPertenece == "La subcategoria no pertenece a la categoria seleccionada"
ErrProductoNoExiste == "El producto no existe"
ErrProductoInactivo == "No se puede agregar un producto inactivo al carrito"
ErrStockCarrito == "Stock insuficiente, solo hay unidades disponibles"
ErrCantidadMin == "La cantidad debe ser al menos 1"
ErrUnico == "usuario_producto_unique"
\* checkout on a cart without rows.
ErrCarritoVacio == "EmptyCartError"
\* An UPDATE that the database rejects (connection lost, deadlock, ...).
ErrBD == "SequelizeDatabaseError"
\* Not an error: the awaited call never settles.
ErrNoTermina == "no termina"

VARIABLES
  stock,        \* productos.stock, by product id
  estado,       \* pedidos.estado, by order id
  fechaPago,    \* pedidos.fechaPago
  fechaEnvio,   \* pedidos.fechaEnvio
  fechaEntrega, \* pedidos.fechaEntrega
  detalles,     \* the DetallePedido rows of each order
  reloj,        \* the instant the last new Date() returned
  ult,          \* the last call: method, argument, error thrown, value returned
  categorias,   \* categorias.activo, by category id
  subcategorias,\* the rows of subcategorias: categoriaId, activo
  filasProducto,\* the rows of productos: subcategoriaId, categoriaId, activo
  copia,        \* the copy of the Subcategoria model that is loaded
  precio,       \* productos.precio, by product id
  carrito,      \* the rows of carritos: usuarioId, productoId, cantidad, precioUnitario
  hilos,        \* the requests in flight that take stock: their position and locals
  total,        \* pedidos.total, by order id
  imagen,       \* productos.imagen, by product id, for the products that have one
  archivos      \* the names of the files in the upload directory

varsPedido == <<stock, estado, fechaPago, fechaEnvio, fechaEntrega, detalles, reloj, total>>
varsCatalogo == <<categorias, subcategorias, filasProducto, copia, imagen, archivos>>
varsCarrito == <<precio, carrito>>
varsOrden == <<estado, fechaPago, fechaEnvio, fechaEntrega, detalles, reloj, total>>
vars == <<stock, estado, fechaPago, fechaEnvio, fechaEntrega, detalles, reloj, ult,
          categorias, subcategorias, filasProducto, copia, precio, carrito, hilos, total,
          imagen, archivos>>

\* --------------------------------------------------------------- Producto

\* Producto.stock validators isInt and min 0, run by save() on the changed field.
StockValido(s) == s \in Int /\ s >= 0

\* producto.save() after this.stock was assigned s: the row is updated when
\* validation passes; otherwise the promise rejects and the row keeps its value.
ProductoSave(st, p, s) == IF StockValido(s) THEN [st EXCEPT ![p] = s] ELSE st

\* JavaScript truthiness of what hayStock returns: a Promise object is truthy.
Truthy(v) == v \in {"Promise", "true"}

\* Producto.prototype.hayStock(cantidad): this.stock += cantidad; return this.save()
\* The save() is not awaited by any caller; nothing cancels it, so its UPDATE
\* is part of the call.  mem is this.stock of the instance after the call.
hayStock(st, p, cantidad) ==
  LET s == st[p] + cantidad
  IN [stock |-> ProductoSave(st, p, s), mem |-> s, ret |-> "Promise"]

\* Producto.prototype.aumentarStock(cantidad):
\*   if (this.hayStock(cantidad)) throw new Error('Stock insuficiente');
\*   this.stock -= cantidad; return await this.save();
aumentarStock(st, p, cantidad) ==
  LET h == hayStock(st, p, cantidad)
  IN IF Truthy(h.ret)
     THEN [stock |-> h.stock, err |-> ErrStockInsuficiente]
     ELSE [stock |-> ProductoSave(h.stock, p, h.mem - cantidad), err |-> SinError]

\* ----------------------------------------------------------------- Pedido

\* One row of pedidos (the columns the status machine reads and writes).
Fila(e, fp, fe, fen) == [estado |-> e, fechaPago |-> fp, fechaEnvio |-> fe, fechaEntrega |-> fen]

\* Pedido.hooks.beforeUpdate: stamps the date of the status just assigned,
\* each with new Date() (the instant t) and a save without hooks.
beforeUpdate(inst, cambio, t) ==
  LET a == IF cambio /\ inst.estado = "pagado"
           THEN [inst EXCEPT !.fechaPago = Fecha(t)] ELSE inst
      b == IF cambio /\ a.estado = "enviado"
           THEN [a EXCEPT !.fechaEnvio = Fecha(t)] ELSE a
      c == IF cambio /\ b.estado = "entregado"
           THEN [b EXCEPT !.fechaEntrega = Fecha(t)] ELSE b
  IN c

\* pedido.save() of an instance loaded as row fila and changed to inst: the
\* validator isIn of estado runs first, then beforeUpdate, then the UPDATE.
PedidoSave(fila, inst, t) ==
  IF inst.estado # fila.estado /\ inst.estado \notin EstadosEnum
  THEN [fila |-> fila, err |-> ErrEstadoIsIn]
  ELSE [fila |-> beforeUpdate(inst, inst.estado # fila.estado, t), err |-> SinError]

\* cambiarEstado without its check of nuevoEstado: every string passes.
EsEstadoValidoSinControl(nuevoEstado) == TRUE

\* Whether estadosValidos.includes(nuevoEstado) in cambiarEstado.
EsEstadoValido(nuevoEstado) == nuevoEstado \in estadosValidos

\* Pedido.prototype.cambiarEstado(nuevoEstado)
cambiarEstado(fila, nuevoEstado, t) ==
  IF ~EsEstadoValido(nuevoEstado)
  THEN [fila |-> fila, err |-> ErrEstadoNoValido]
  ELSE PedidoSave(fila, [fila EXCEPT !.estado = nuevoEstado], t)

\* puedeSerCancelado that also lets a shipped order through.
puedeSerCanceladoConEnviado(e) == e \in {"pendiente", "pagado", "enviado"}

\* Pedido.prototype.puedeSerCancelado
puedeSerCancelado(e) == e \in {"pendiente", "pagado"}

\* The loop of cancelar over the detalles: aumentarStock on every line whose
\* product exists; the first call that throws ends the loop with its error.
RECURSIVE devolverStock(_, _)
devolverStock(st, lineas) ==
  IF lineas = <<>> THEN [stock |-> st, err |-> SinError]
  ELSE LET d == Head(lineas)
       IN IF d.productoId \in DOMAIN st
          THEN LET r == aumentarStock(st, d.productoId, d.cantidad)
               IN IF r.err # SinError THEN r
                  ELSE devolverStock(r.stock, Tail(lineas))
          ELSE devolverStock(st, Tail(lineas))

\* Pedido.prototype.cancelar()
cancelar(fila, st, lineas, t) ==
  IF ~puedeSerCancelado(fila.estado)
  THEN [fila |-> fila, stock |-> st, err |-> ErrNoCancelable]
  ELSE LET d == devolverStock(st, lineas)
       IN IF d.err # SinError
          THEN [fila |-> fila, stock |-> d.stock, err |-> d.err]
          ELSE LET g == PedidoSave(fila, [fila EXCEPT !.estado = "cancelado"], t)
               IN [fila |-> g.fila, stock |-> d.stock, err |-> g.err]

\* Pedido.hooks.beforeDestroy without its throw.
beforeDestroySinThrow == SinError

\* Pedido.hooks.beforeDestroy: throws on every call.
beforeDestroy == ErrNoEliminar

\* The table column f without the row of order o (DELETE FROM pedidos).
SinFila(f, o) == [x \in DOMAIN f \ {o} |-> f[x]]

\* The row of order o.
FilaDe(o) == Fila(estado[o], fechaPago[o], fechaEnvio[o], fechaEntrega[o])

\* Whether writing row g over row f called new Date().
Sello(f, g) ==
  <<g.fechaPago, g.fechaEnvio, g.fechaEntrega>> # <<f.fechaPago, f.fechaEnvio, f.fechaEntrega>>

\* The sum of precioUnitario * cantidad over the lines of an order.
RECURSIVE totalDeLineas(_)
totalDeLineas(lineas) ==
  IF lineas = <<>> THEN 0
  ELSE Head(lineas).precioUnitario * Head(lineas).cantidad + totalDeLineas(Tail(lineas))

\* The same sum at the products' present prices.
RECURSIVE totalAPrecioActual(_, _)
totalAPrecioActual(lineas, pr) ==
  IF lineas = <<>> THEN 0
  ELSE pr[Head(lineas).productoId] * Head(lineas).cantidad
       + totalAPrecioActual(Tail(lineas), pr)

\* The columns of pedidos assigned between load and save, total among them.
ColumnasAsignadasConTotal == {"estado", "fechaPago", "fechaEnvio", "fechaEntrega", "total"}

\* The columns of pedidos that cambiarEstado, cancelar and beforeUpdate
\* assign between load and save: save() writes the changed columns only.
ColumnasAsignadas == {"estado", "fechaPago", "fechaEnvio", "fechaEntrega"}

\* The tables after row g is written for order o.
Escribir(o, g) ==
  /\ total' = IF "total" \in ColumnasAsignadas
              THEN [total EXCEPT ![o] = totalAPrecioActual(detalles[o], precio)]
              ELSE total
  /\ estado' = [estado EXCEPT ![o] = g.estado]
  /\ fechaPago' = [fechaPago EXCEPT ![o] = g.fechaPago]
  /\ fechaEnvio' = [fechaEnvio EXCEPT ![o] = g.fechaEnvio]
  /\ fechaEntrega' = [fechaEntrega EXCEPT ![o] = g.fechaEntrega]
  /\ reloj' = IF Sello(FilaDe(o), g) THEN reloj + 1 ELSE reloj

\* ---------------------------------------------------------------- catalog

\* The three catalog tables as one value.
Cat(c, sb, pr) == [cat |-> c, sub |-> sb, prod |-> pr]

\* The outcome of a call on the catalog: the tables it leaves and its error.
Res(K, err) == [k |-> K, err |-> err]

\* The call threw: it returned neither normally nor hangs.
Lanza(r) == r.err \notin {SinError, ErrNoTermina}

\* The least id of a set of rows: findAll returns the rows in id order.
Primero(ids) == CHOOSE x \in ids : \A y \in ids : x <= y

\* The one row whose UPDATE the database rejects during a call, if any:
\* <<"ninguna", 0>> or the table and id of the row.
Fallas ==
  {<<"ninguna", 0>>} \union ({"cat"} \X CatIds) \union ({"sub"} \X SubIds)
    \union ({"prod"} \X Productos)

\* The rows of Fallas that a call on row id of a table can come to update:
\* the row itself and the rows of the tables below it.
FallasDe(tabla, id) ==
  {f \in Fallas :
     \/ f[1] = "ninguna"
     \/ f = <<tabla, id>>
     \/ tabla = "cat" /\ f[1] \in {"sub", "prod"}
     \/ tabla = "sub" /\ f[1] \in {"sub", "prod"}}

\* The file that defines the Subcategoria model the application loads:
\* 1 is models/Producto.js, 2 the second half of config/multer.js.
Copias == {1, 2}

\* catch (error) { console.error(...); } without the throw: the error is lost.
catchSinThrow(r) == Res(r.k, SinError)

\* catch (error) { console.error(...); throw error; } of the afterUpdate hooks.
catch(r) == r

\* In all the operators below K is the tables as the caller's transaction
\* sees them and K0 the committed tables: the updates of the hooks carry
\* options.transaction, their findAll calls do not, so they read K0.

\* producto.update({activo: v}) on an instance whose activo is inst: Producto
\* has no update hook; an unchanged instance sends no UPDATE.
productoUpdate(K, p, inst, v, falla) ==
  IF inst = v THEN Res(K, SinError)
  ELSE IF falla = <<"prod", p>> THEN Res(K, ErrBD)
  ELSE Res([K EXCEPT !.prod[p].activo = v], SinError)

\* for (const producto of productos) await producto.update({activo: false})
RECURSIVE desactivarProductos(_, _, _, _)
desactivarProductos(K, K0, ids, falla) ==
  IF ids = {} THEN Res(K, SinError)
  ELSE LET p == Primero(ids)
           r == productoUpdate(K, p, K0.prod[p].activo, FALSE, falla)
       IN IF r.err # SinError THEN r
          ELSE desactivarProductos(r.k, K0, ids \ {p}, falla)

\* Producto.findAll({where: {subcategoriaId: s}}) by the wrong column
\* (categoriaId: s), as getproductos does.
productosDeSubcategoriaPorCategoria(K0, s) ==
  {p \in DOMAIN K0.prod : K0.prod[p].categoriaId = s}

\* Producto.findAll({where: {subcategoriaId: s}})
productosDeSubcategoria(K0, s) ==
  {p \in DOMAIN K0.prod : K0.prod[p].subcategoriaId = s}

\* Producto.findAll({where: {categoriaId: c}})
productosDeCategoria(K0, c) ==
  {p \in DOMAIN K0.prod : K0.prod[p].categoriaId = c}

\* Subcategoria.findAll({where: {categoriaId: c}})
subcategoriasDeCategoria(K0, c) ==
  {x \in DOMAIN K0.sub : K0.sub[x].categoriaId = c}

\* The condition of the afterUpdate hooks without "&& !activo".
seDesactivaSinNegar(cambio, activo) == cambio

\* The condition of the afterUpdate hooks: changed('activo') && !activo.
seDesactiva(cambio, activo) == cambio /\ ~activo

RECURSIVE subcategoriaUpdate(_, _, _, _, _, _, _, _)
RECURSIVE subcategoriaAfterUpdate(_, _, _, _, _, _)
RECURSIVE desactivarSubcategorias(_, _, _, _, _, _)

\* Subcategoria.hooks.afterUpdate of copy cp once the row of s is written
\* inactive, at nesting depth n of this hook. Copy 2 first updates every
\* subcategory of the same category, s included. A nesting deeper than
\* MaxAnidado never unwinds: the call does not return.
subcategoriaAfterUpdate(K, K0, s, falla, cp, n) ==
  IF n > MaxAnidado THEN Res(K, ErrNoTermina)
  ELSE LET r1 == IF cp = 2
                 THEN desactivarSubcategorias(
                        K, K0, subcategoriasDeCategoria(K0, K0.sub[s].categoriaId),
                        falla, cp, n)
                 ELSE Res(K, SinError)
           r2 == IF r1.err # SinError THEN r1
                 ELSE desactivarProductos(r1.k, K0, productosDeSubcategoria(K0, s), falla)
       IN IF Lanza(r2) THEN catch(r2) ELSE r2

\* subcategoria.update({activo: v}) on an instance whose activo is inst:
\* the UPDATE, then afterUpdate.
subcategoriaUpdate(K, K0, s, inst, v, falla, cp, n) ==
  IF inst = v THEN Res(K, SinError)
  ELSE IF falla = <<"sub", s>> THEN Res(K, ErrBD)
  ELSE LET K1 == [K EXCEPT !.sub[s].activo = v]
       IN IF seDesactiva(TRUE, v)
          THEN subcategoriaAfterUpdate(K1, K0, s, falla, cp, n + 1)
          ELSE Res(K1, SinError)

\* for (const subcategoria of subcategorias) await subcategoria.update({activo: false})
desactivarSubcategorias(K, K0, ids, falla, cp, n) ==
  IF ids = {} THEN Res(K, SinError)
  ELSE LET x == Primero(ids)
           r == subcategoriaUpdate(K, K0, x, K0.sub[x].activo, FALSE, falla, cp, n)
       IN IF r.err # SinError THEN r
          ELSE desactivarSubcategorias(r.k, K0, ids \ {x}, falla, cp, n)

\* Step 1 of Categoria.hooks.afterUpdate left out: no subcategory is updated.
paso1Omitido(K, K0, c, falla, cp) == Res(K, SinError)

\* Step 1 of Categoria.hooks.afterUpdate: the subcategories of the category.
paso1(K, K0, c, falla, cp) ==
  desactivarSubcategorias(K, K0, subcategoriasDeCategoria(K0, c), falla, cp, 0)

\* Categoria.hooks.afterUpdate once the row of c is written inactive.
categoriaAfterUpdate(K, K0, c, falla, cp) ==
  LET r1 == paso1(K, K0, c, falla, cp)
      r2 == IF r1.err # SinError THEN r1
            ELSE desactivarProductos(r1.k, K0, productosDeCategoria(K0, c), falla)
  IN IF Lanza(r2) THEN catch(r2) ELSE r2

\* categoria.update({activo: v}) on a freshly loaded category.
categoriaUpdate(K0, c, v, falla, cp) ==
  IF K0.cat[c] = v THEN Res(K0, SinError)
  ELSE IF falla = <<"cat", c>> THEN Res(K0, ErrBD)
  ELSE LET K1 == [K0 EXCEPT !.cat[c] = v]
       IN IF seDesactiva(TRUE, v)
          THEN categoriaAfterUpdate(K1, K0, c, falla, cp)
          ELSE Res(K1, SinError)

\* Subcategoria.hooks.beforeCreate without the test of categoria.activo.
subcategoriaBeforeCreateSinActivo(K0, c) ==
  IF c \notin DOMAIN K0.cat THEN ErrCategoriaNoExiste ELSE SinError

\* Subcategoria.hooks.beforeCreate
subcategoriaBeforeCreate(K0, c) ==
  IF c \notin DOMAIN K0.cat THEN ErrCategoriaNoExiste
  ELSE IF ~K0.cat[c] THEN ErrCategoriaInactiva
  ELSE SinError

\* Subcategoria.create({categoriaId: c, ...}) with a valid, unused name: the
\* row gets the next id s and activo = true.
subcategoriaCreate(K0, s, c) ==
  LET err == subcategoriaBeforeCreate(K0, c)
  IN IF err # SinError THEN Res(K0, err)
     ELSE Res([K0 EXCEPT !.sub = [x \in DOMAIN K0.sub \union {s} |->
                 IF x = s THEN [categoriaId |-> c, activo |-> TRUE] ELSE K0.sub[x]]],
              SinError)

\* The model files that require() resolves from models/.
ModulosModelo == {"./Categoria", "./Subcategoria", "./Producto"}

\* The names bound where Producto.hooks.beforeCreate reads Subategoria,
\* categoria (declared further down, so not yet readable) and produto.
AmbitoLinea189 == {"producto", "Categoria", "Subcategoria"}
AmbitoLinea190 == {"producto", "Categoria", "Subcategoria", "subcategoria"}
AmbitoLinea199 == {"producto", "Categoria", "Subcategoria", "subcategoria"}

\* A beforeCreate that checks nothing.
productoBeforeCreateSinControl(K0, s, c) == SinError

\* Producto.hooks.beforeCreate for a product of subcategory s and category
\* c, statement by statement.
productoBeforeCreate(K0, s, c) ==
  IF "./Subategoria" \notin ModulosModelo THEN ErrModuloNoEncontrado
  ELSE IF "Subategoria" \notin AmbitoLinea189 THEN ErrReferencia
  ELSE IF "categoria" \notin AmbitoLinea190 THEN ErrReferencia
  ELSE IF ~K0.sub[s].activo THEN ErrSubcategoriaInactiva
  ELSE IF "produto" \notin AmbitoLinea199 THEN ErrReferencia
  ELSE IF c \notin DOMAIN K0.cat THEN ErrCategoriaNoExiste
  ELSE IF ~K0.cat[c] THEN ErrProductoCategoriaInactiva
  ELSE IF K0.sub[s].categoriaId # c THEN ErrNoPertenece
  ELSE SinError

\* Producto.create({subcategoriaId: s, categoriaId: c, ...}) with valid
\* nombre and precio: the row gets the next id p and activo = true.
productoCreate(K0, p, s, c) ==
  LET err == productoBeforeCreate(K0, s, c)
  IN IF err # SinError THEN Res(K0, err)
     ELSE Res([K0 EXCEPT !.prod = [x \in DOMAIN K0.prod \union {p} |->
                 IF x = p THEN [subcategoriaId |-> s, categoriaId |-> c, activo |-> TRUE]
                 ELSE K0.prod[x]]],
              SinError)

\* The caller's transaction around one call: a call that returns is
\* committed; one that throws is rolled back, one that never returns
\* commits nothing.
EnTransaccion(K0, r) == IF r.err # SinError THEN K0 ELSE r.k

\* The catalog tables of the current state.
Catalogo == Cat(categorias, subcategorias, filasProducto)

\* The catalog tables of the next state are K.
EscribirCatalogo(K) ==
  /\ categorias' = K.cat
  /\ subcategorias' = K.sub
  /\ filasProducto' = K.prod
  /\ copia' = copia
  /\ UNCHANGED <<imagen, archivos>>

\* For the call record: the table of the row whose UPDATE was rejected.
Rechazo(r, falla) == IF r.err = ErrBD THEN falla[1] ELSE "nada"

\* "true" / "false" for the call record.
Texto(v) == IF v THEN "true" ELSE "false"

\* Two categories; subcategories 1 and 2 under the categories f names, the
\* products under the subcategories g names, each product's categoriaId
\* that of its subcategory; everything active (the defaultValue).
CatalogoInicial(f, g) ==
  Cat([c \in {1, 2} |-> TRUE],
      [x \in {1, 2} |-> [categoriaId |-> f[x], activo |-> TRUE]],
      [p \in Productos |->
         [subcategoriaId |-> g[p], categoriaId |-> f[g[p]], activo |-> TRUE]])

\* ------------------------------------------------------------------- cart

\* A row of carritos.
Item(u, p, q, pu) ==
  [usuarioId |-> u, productoId |-> p, cantidad |-> q, precioUnitario |-> pu]

\* What a call on the cart leaves: productos.stock, the rows of carritos,
\* its error and the value it returns.
ResCarrito(st, C, err, ret) == [stock |-> st, carrito |-> C, err |-> err, ret |-> ret]

\* The columns of carritos and the fields of the index usuario_producto_unique
\* as declared: one string. An index on a column the table does not have is
\* never created, so it rejects nothing.
ColumnasCarrito == {"id", "usuarioId", "productoId", "cantidad", "precioUnitario"}
IndiceUnico == {"usuarioId, productoId"}
IndiceVigente == IndiceUnico \subseteq ColumnasCarrito
Conflicto(C, item) ==
  /\ IndiceVigente
  /\ \E l \in DOMAIN C :
       C[l].usuarioId = item.usuarioId /\ C[l].productoId = item.productoId

\* The names bound where Carrito.hooks.beforeCreate reads Producto, where
\* actualizarCantidad reads producto and where obtenerTotalCarrito reads total.
AmbitoCarritoBeforeCreateConProducto ==
  {"DataTypes", "sequelize", "e", "Pedido", "itemCarrito", "Categoria", "Producto"}
AmbitoCarritoBeforeCreate ==
  {"DataTypes", "sequelize", "e", "Pedido", "itemCarrito", "Categoria"}
AmbitoActualizarCantidad ==
  {"DataTypes", "sequelize", "e", "Pedido", "nuevaCantidad", "Producto"}
AmbitoObtenerTotalCarrito ==
  {"DataTypes", "sequelize", "e", "Pedido", "usuarioId", "items", "item"}

\* Carrito.hooks.beforeCreate of copy cp for the item being created: the
\* error, productos.stock as hayStock leaves it, and the item. Copy 2 is the
\* hook of Subcategoria: it looks up the category itemCarrito.categoriaId,
\* a field a cart item does not have, and findByPk(undefined) finds nothing.
carritoBeforeCreate(st, prods, pr, item, cp) ==
  IF cp = 2 THEN [err |-> ErrCategoriaNoExiste, stock |-> st, item |-> item]
  ELSE IF "Producto" \notin AmbitoCarritoBeforeCreate
  THEN [err |-> ErrReferencia, stock |-> st, item |-> item]
  ELSE IF item.productoId \notin DOMAIN prods
  THEN [err |-> ErrProductoNoExiste, stock |-> st, item |-> item]
  ELSE IF ~prods[item.productoId].activo
  THEN [err |-> ErrProductoInactivo, stock |-> st, item |-> item]
  ELSE LET h == hayStock(st, item.productoId, item.cantidad)
       IN IF ~Truthy(h.ret)
          THEN [err |-> ErrStockCarrito, stock |-> h.stock, item |-> item]
          ELSE [err |-> SinError, stock |-> h.stock,
                item |-> [item EXCEPT !.precioUnitario = pr[item.productoId]]]

\* Carrito.create({usuarioId: u, productoId: p, cantidad: q, precioUnitario})
\* with the other required fields valid: validation, beforeCreate, INSERT
\* of row l.
carritoCreate(st, C, prods, pr, l, u, p, q, cp) ==
  IF q < 1 THEN ResCarrito(st, C, ErrCantidadMin, "nada")
  ELSE LET b == carritoBeforeCreate(st, prods, pr, Item(u, p, q, 1), cp)
       IN IF b.err # SinError THEN ResCarrito(b.stock, C, b.err, "nada")
          ELSE IF Conflicto(C, b.item) THEN ResCarrito(b.stock, C, ErrUnico, "nada")
          ELSE ResCarrito(b.stock,
                          [x \in DOMAIN C \union {l} |-> IF x = l THEN b.item ELSE C[x]],
                          SinError, "nada")

\* A beforeUpdate that derives the unit price again.
carritoBeforeUpdateConPrecio(st, prods, pr, item, cambio, cp) ==
  [err |-> SinError, stock |-> st,
   item |-> [item EXCEPT !.precioUnitario = pr[item.productoId]]]

\* Carrito.hooks.beforeUpdate of copy cp (copy 2 has none) for the changed
\* item; cambio is changed('cantidad').
carritoBeforeUpdate(st, prods, pr, item, cambio, cp) ==
  IF cp = 2 \/ ~cambio THEN [err |-> SinError, stock |-> st, item |-> item]
  ELSE IF item.productoId \notin DOMAIN prods
  THEN [err |-> ErrProductoNoExiste, stock |-> st, item |-> item]
  ELSE LET h == hayStock(st, item.productoId, item.cantidad)
       IN IF ~Truthy(h.ret)
          THEN [err |-> ErrStockCarrito, stock |-> h.stock, item |-> item]
          ELSE [err |-> SinError, stock |-> h.stock, item |-> item]

\* item.cantidad = n; item.save() on row l: nothing to save when unchanged,
\* else validation, beforeUpdate, UPDATE.
carritoSave(st, C, prods, pr, l, n, cp) ==
  IF n = C[l].cantidad THEN ResCarrito(st, C, SinError, "nada")
  ELSE IF n < 1 THEN ResCarrito(st, C, ErrCantidadMin, "nada")
  ELSE LET b == carritoBeforeUpdate(st, prods, pr, [C[l] EXCEPT !.cantidad = n], TRUE, cp)
       IN IF b.err # SinError THEN ResCarrito(b.stock, C, b.err, "nada")
          ELSE ResCarrito(b.stock, [C EXCEPT ![l] = b.item], SinError, "nada")

\* Carrito.prototype.actualizarCantidad on row l.
actualizarCantidad(st, C, prods, pr, l, nuevaCantidad) ==
  IF "producto" \notin AmbitoActualizarCantidad
  THEN ResCarrito(st, C, ErrReferencia, "nada")
  ELSE LET h == hayStock(st, C[l].productoId, nuevaCantidad)
       IN IF Truthy(h.ret) THEN ResCarrito(h.stock, C, ErrStockCarrito, "nada")
          ELSE carritoSave(h.stock, C, prods, pr, l, nuevaCantidad, 1)

\* Carrito.prototype.calcularSubtotal
calcularSubtotal(item) == item.precioUnitario * item.cantidad

\* The sum of calcularSubtotal over the rows ids of C.
RECURSIVE sumaSubtotales(_, _)
sumaSubtotales(C, ids) ==
  IF ids = {} THEN 0
  ELSE LET l == Primero(ids)
       IN calcularSubtotal(C[l]) + sumaSubtotales(C, ids \ {l})

\* Carrito.findAll({where: {usuarioId: u}})
lineasDeUsuario(C, u) == {l \in DOMAIN C : C[l].usuarioId = u}

\* Carrito.obtenerTotalCarrito: total is read, in the loop or in the
\* return, without ever being declared.
obtenerTotalCarrito(st, C, u) ==
  IF "total" \notin AmbitoObtenerTotalCarrito
  THEN ResCarrito(st, C, ErrReferencia, "nada")
  ELSE ResCarrito(st, C, SinError, ToString(sumaSubtotales(C, lineasDeUsuario(C, u))))

\* Carrito.vaciarCarrito: DELETE FROM carritos WHERE usuarioId = u; returns
\* the number of rows deleted.
vaciarCarrito(st, C, u) ==
  ResCarrito(st, [l \in DOMAIN C \ lineasDeUsuario(C, u) |-> C[l]], SinError,
             ToString(Cardinality(lineasDeUsuario(C, u))))

\* item.destroy() on row l: Carrito has no destroy hook.
carritoDestroy(st, C, l) ==
  ResCarrito(st, [x \in DOMAIN C \ {l} |-> C[x]], SinError, "nada")

\* What a checkout leaves: the products' stock, the rows of carritos, the
\* lines of the order it created (none when it created no order).
ResCheckout(st, C, err, lineas) ==
  [stock |-> st, carrito |-> C, err |-> err, lineas |-> lineas]

\* The stock part of checkout, row by row in id order: producto.hayStock
\* re-validates, the method that reduces the stock (aumentarStock in the
\* code) takes the quantity; the first failure ends the loop.
RECURSIVE tomarStock(_, _, _)
tomarStock(st, C, ids) ==
  IF ids = {}
  THEN [stock |-> st, err |-> SinError]
  ELSE LET l == Primero(ids)
           h == hayStock(st, C[l].productoId, C[l].cantidad)
           a == aumentarStock(h.stock, C[l].productoId, C[l].cantidad)
       IN IF ~Truthy(h.ret) THEN [stock |-> h.stock, err |-> ErrStockInsuficiente]
          ELSE IF a.err # SinError THEN [stock |-> a.stock, err |-> a.err]
          ELSE tomarStock(a.stock, C, ids \ {l})

\* The snapshot of the cart rows ids as order lines, in id order.
RECURSIVE lineasDePedido(_, _)
lineasDePedido(C, ids) ==
  IF ids = {}
  THEN <<>>
  ELSE LET l == Primero(ids)
       IN <<[productoId |-> C[l].productoId, cantidad |-> C[l].cantidad,
             precioUnitario |-> C[l].precioUnitario]>> \o lineasDePedido(C, ids \ {l})

\* checkout(u) in one transaction: read the rows of u, take the stock,
\* create the order and its lines, empty the cart.  A throw rolls back what
\* the transaction wrote; the save() inside hayStock is given no
\* transaction, so what it wrote to productos stays.
checkout(st, C, u) ==
  LET ids == lineasDeUsuario(C, u)
      t == tomarStock(st, C, ids)
  IN IF ids = {} THEN ResCheckout(st, C, ErrCarritoVacio, <<>>)
     ELSE IF t.err # SinError THEN ResCheckout(t.stock, C, t.err, <<>>)
     ELSE ResCheckout(t.stock, vaciarCarrito(t.stock, C, u).carrito, SinError,
                      lineasDePedido(C, ids))

\* ------------------------------------------------------- stored images

\* File names an image can have, and an argument that is no string.
Nombres == {"a.jpg", "b.jpg"}
NoEsCadena == "undefined"
ErrTipo == "TypeError"

\* path.join(uploadPath, filename) throws when filename is no string.
pathJoin(filename) == IF filename = NoEsCadena THEN ErrTipo ELSE SinError

\* The outcome of deleteFile: the upload directory it leaves, what it
\* returned, the error it let out.
ResArchivo(arch, ret, err) == [archivos |-> arch, ret |-> ret, err |-> err]

\* deleteFile(filename): inside try, the path is built and
\* fs.existsSync(filePath) decides between return true and return false;
\* no call removes the file.  The catch returns false.
deleteFile(arch, filename) ==
  IF pathJoin(filename) # SinError THEN ResArchivo(arch, "false", SinError)
  ELSE IF filename \in arch THEN ResArchivo(arch, "true", SinError)
  ELSE ResArchivo(arch, "false", SinError)

\* Producto.hooks.beforeDestroy that fails when the image was not removed.
productoBeforeDestroyEstricto(arch, img, p) ==
  IF p \in DOMAIN img
  THEN LET r == deleteFile(arch, img[p])
       IN [archivos |-> r.archivos, intento |-> img[p], eliminado |-> r.ret,
           err |-> IF r.ret = "true" THEN r.err ELSE ErrBD]
  ELSE [archivos |-> arch, intento |-> "nada", eliminado |-> "nada", err |-> SinError]

\* Producto.hooks.beforeDestroy: with an image, deleteFile(producto.imagen)
\* and a log line when it returned true; without one, nothing.
productoBeforeDestroy(arch, img, p) ==
  IF p \in DOMAIN img
  THEN LET r == deleteFile(arch, img[p])
       IN [archivos |-> r.archivos, intento |-> img[p], eliminado |-> r.ret, err |-> r.err]
  ELSE [archivos |-> arch, intento |-> "nada", eliminado |-> "nada", err |-> SinError]

\* The record of a call: the method, its argument (cant for the stock
\* methods, nuevo for cambiarEstado), the error it threw, the value it returned.
Llamada(op, cant, nuevo, err, ret) ==
  [op |-> op, cant |-> cant, nuevo |-> nuevo, err |-> err, ret |-> ret]

\* ------------------------------------------------------------------- Init
Init ==
  /\ stock = [p \in Productos |-> 0]
  /\ estado = [o \in Pedidos |-> "pendiente"]
  /\ fechaPago = [o \in Pedidos |-> Nulo]
  /\ fechaEnvio = [o \in Pedidos |-> Nulo]
  /\ fechaEntrega = [o \in Pedidos |-> Nulo]
  /\ detalles \in [Pedidos -> Lineas]
  /\ total = [o \in Pedidos |-> totalDeLineas(detalles[o])]
  /\ reloj = 0
  /\ ult = Llamada("ninguna", 0, "nada", SinError, "nada")
  /\ \E f \in {[x \in {1, 2} |-> x]}, g \in {[p \in Productos |-> 1]} :
       /\ categorias = CatalogoInicial(f, g).cat
       /\ subcategorias = CatalogoInicial(f, g).sub
       /\ filasProducto = CatalogoInicial(f, g).prod
  /\ copia = 1
  /\ precio = [p \in Productos |-> 1]
  /\ carrito = <<>>
  /\ hilos = <<>>
  /\ imagen = <<>>
  /\ archivos = {}

\* ---------------------------------------------------------------- actions

\* A caller loads product p and calls producto.hayStock(q).
HayStock(p, q) ==
  LET h == hayStock(stock, p, q)
  IN /\ stock[p] + q <= MaxStock
     /\ stock' = h.stock
     /\ ult' = Llamada("hayStock", q, "nada", SinError, h.ret)
     /\ UNCHANGED <<estado, fechaPago, fechaEnvio, fechaEntrega, detalles, reloj>>
     /\ UNCHANGED varsCatalogo
     /\ UNCHANGED <<varsCarrito, total, hilos>>

\* A caller loads product p and awaits producto.aumentarStock(q).
AumentarStock(p, q) ==
  LET r == aumentarStock(stock, p, q)
  IN /\ stock[p] + q <= MaxStock
     /\ stock' = r.stock
     /\ ult' = Llamada("aumentarStock", q, "nada", r.err, "nada")
     /\ UNCHANGED <<estado, fechaPago, fechaEnvio, fechaEntrega, detalles, reloj>>
     /\ UNCHANGED varsCatalogo
     /\ UNCHANGED <<varsCarrito, total, hilos>>

\* A caller loads order o and awaits pedido.cambiarEstado(e).
CambiarEstado(o, e) ==
  LET r == cambiarEstado(FilaDe(o), e, reloj + 1)
  IN /\ o \in DOMAIN estado
     /\ Sello(FilaDe(o), r.fila) => reloj < MaxReloj
     /\ Escribir(o, r.fila)
     /\ ult' = Llamada("cambiarEstado", 0, e, r.err, "nada")
     /\ UNCHANGED <<stock, detalles>>
     /\ UNCHANGED varsCatalogo
     /\ UNCHANGED <<varsCarrito, hilos>>

\* A caller loads order o and awaits pedido.cancelar().
Cancelar(o) ==
  LET r == cancelar(FilaDe(o), stock, detalles[o], reloj + 1)
  IN /\ o \in DOMAIN estado
     /\ Sello(FilaDe(o), r.fila) => reloj < MaxReloj
     /\ \A p \in Productos : r.stock[p] <= MaxStock
     /\ Escribir(o, r.fila)
     /\ stock' = r.stock
     /\ ult' = Llamada("cancelar", 0, "nada", r.err, "nada")
     /\ UNCHANGED detalles
     /\ UNCHANGED varsCatalogo
     /\ UNCHANGED <<varsCarrito, hilos>>

\* A caller loads order o and awaits pedido.destroy(): beforeDestroy runs
\* first, and the row is deleted only if the hook does not throw.
Destroy(o) ==
  LET err == beforeDestroy
  IN /\ o \in DOMAIN estado
     /\ IF err # SinError
        THEN UNCHANGED <<estado, fechaPago, fechaEnvio, fechaEntrega>>
        ELSE /\ estado' = SinFila(estado, o)
             /\ fechaPago' = SinFila(fechaPago, o)
             /\ fechaEnvio' = SinFila(fechaEnvio, o)
             /\ fechaEntrega' = SinFila(fechaEntrega, o)
     /\ ult' = Llamada("destroy", 0, "nada", err, "nada")
     /\ UNCHANGED <<stock, detalles, reloj>>
     /\ UNCHANGED varsCatalogo
     /\ UNCHANGED <<varsCarrito, total, hilos>>

Next ==
  \/ \E p \in Productos, q \in Cantidades : HayStock(p, q)
  \/ \E p \in Productos, q \in Cantidades : AumentarStock(p, q)
  \/ \E o \in Pedidos, e \in EstadosEntrada : CambiarEstado(o, e)
  \/ \E o \in Pedidos : Cancelar(o)
  \/ \E o \in Pedidos : Destroy(o)

Spec == Init /\ [][Next]_vars

\* ------------------------------------------------------- catalog actions

InitCatalogo ==
  /\ stock = [p \in Productos |-> 0]
  /\ estado = [o \in Pedidos |-> "pendiente"]
  /\ fechaPago = [o \in Pedidos |-> Nulo]
  /\ fechaEnvio = [o \in Pedidos |-> Nulo]
  /\ fechaEntrega = [o \in Pedidos |-> Nulo]
  /\ detalles = [o \in Pedidos |-> <<>>]
  /\ total = [o \in Pedidos |-> 0]
  /\ reloj = 0
  /\ ult = Llamada("ninguna", 0, "nada", SinError, "nada")
  /\ copia \in Copias
  /\ precio = [p \in Productos |-> 1]
  /\ carrito = <<>>
  /\ hilos = <<>>
  /\ imagen = <<>>
  /\ archivos = {}
  /\ \E f \in {[x \in {1, 2} |-> 3 - x]}, g \in {h \in [Productos -> {1, 2}] : h[1] = 1} :
       /\ categorias = CatalogoInicial(f, g).cat
       /\ subcategorias = CatalogoInicial(f, g).sub
       /\ filasProducto = CatalogoInicial(f, g).prod

\* A caller loads category c and, in a transaction, awaits
\* categoria.update({activo: v}).
ActualizarCategoria(c, v, falla) ==
  LET r == categoriaUpdate(Catalogo, c, v, falla, copia)
  IN /\ c \in DOMAIN categorias
     /\ EscribirCatalogo(EnTransaccion(Catalogo, r))
     /\ ult' = Llamada("categoria.update", c, Texto(v), r.err, Rechazo(r, falla))
     /\ UNCHANGED varsPedido
     /\ UNCHANGED <<varsCarrito, hilos>>

\* A caller awaits Subcategoria.create({categoriaId: c, ...}); s is the id
\* the row would get.
CrearSubcategoria(s, c) ==
  LET r == subcategoriaCreate(Catalogo, s, c)
  IN /\ s \notin DOMAIN subcategorias
     /\ \A x \in DOMAIN subcategorias : x < s
     /\ EscribirCatalogo(EnTransaccion(Catalogo, r))
     /\ ult' = Llamada("subcategoria.create", c, "nada", r.err, "nada")
     /\ UNCHANGED varsPedido
     /\ UNCHANGED <<varsCarrito, hilos>>

\* A caller loads subcategory s and, in a transaction, awaits
\* subcategoria.update({activo: v}).
ActualizarSubcategoria(s, v, falla) ==
  LET r == subcategoriaUpdate(Catalogo, Catalogo, s, subcategorias[s].activo, v, falla, copia, 0)
  IN /\ s \in DOMAIN subcategorias
     /\ EscribirCatalogo(EnTransaccion(Catalogo, r))
     /\ ult' = Llamada("subcategoria.update", s, Texto(v), r.err, Rechazo(r, falla))
     /\ UNCHANGED varsPedido
     /\ UNCHANGED <<varsCarrito, hilos>>

\* A caller loads product p and awaits producto.update({activo: v}).
ActualizarProducto(p, v, falla) ==
  LET r == productoUpdate(Catalogo, p, filasProducto[p].activo, v, falla)
  IN /\ p \in DOMAIN filasProducto
     /\ EscribirCatalogo(EnTransaccion(Catalogo, r))
     /\ ult' = Llamada("producto.update", p, Texto(v), r.err, Rechazo(r, falla))
     /\ UNCHANGED varsPedido
     /\ UNCHANGED <<varsCarrito, hilos>>

\* A caller awaits Producto.create({subcategoriaId: s, categoriaId: c, ...});
\* p is the id the row would get, its stock the defaultValue 0.
CrearProducto(p, s, c) ==
  LET r == productoCreate(Catalogo, p, s, c)
  IN /\ p \notin DOMAIN filasProducto
     /\ \A x \in DOMAIN filasProducto : x < p
     /\ EscribirCatalogo(EnTransaccion(Catalogo, r))
     /\ stock' = IF r.err = SinError
                 THEN [x \in DOMAIN stock \union {p} |-> IF x = p THEN 0 ELSE stock[x]]
                 ELSE stock
     /\ precio' = IF r.err = SinError
                  THEN [x \in DOMAIN precio \union {p} |-> IF x = p THEN 1 ELSE precio[x]]
                  ELSE precio
     /\ ult' = Llamada("producto.create", s, "nada", r.err, "nada")
     /\ UNCHANGED varsOrden
     /\ UNCHANGED <<carrito, hilos>>

NextCatalogo ==
  \/ \E p \in ProductoIds, s \in SubIds, c \in CatIds : CrearProducto(p, s, c)
  \/ \E c \in CatIds, v \in BOOLEAN :
       \E falla \in FallasDe("cat", c) : ActualizarCategoria(c, v, falla)
  \/ \E s \in SubIds, c \in CatIds : CrearSubcategoria(s, c)
  \/ \E s \in SubIds, v \in BOOLEAN :
       \E falla \in FallasDe("sub", s) : ActualizarSubcategoria(s, v, falla)
  \/ \E p \in Productos, v \in BOOLEAN :
       \E falla \in FallasDe("prod", p) : ActualizarProducto(p, v, falla)

SpecCatalogo == InitCatalogo /\ [][NextCatalogo]_vars

\* ---------------------------------------------------------- cart actions

\* The rows carritos may hold at the start: two lines of user 1, one line
\* of user 2 whose unit price is not the product's present price.
FilasIniciales ==
  [l \in LineaIds |->
     IF l = 1 THEN Item(1, 1, 1, 1) ELSE IF l = 2 THEN Item(1, 2, 2, 1) ELSE Item(2, 2, 1, 2)]

InitCarrito ==
  /\ stock = [p \in Productos |-> IF p = 1 THEN 1 ELSE 0]
  /\ estado = <<>>
  /\ fechaPago = <<>>
  /\ fechaEnvio = <<>>
  /\ fechaEntrega = <<>>
  /\ detalles = <<>>
  /\ total = <<>>
  /\ reloj = 0
  /\ ult = Llamada("ninguna", 0, "nada", SinError, "nada")
  /\ copia = 1
  /\ categorias = CatalogoInicial([x \in {1, 2} |-> x], [p \in Productos |-> p]).cat
  /\ subcategorias = CatalogoInicial([x \in {1, 2} |-> x], [p \in Productos |-> p]).sub
  /\ \E a \in BOOLEAN :
       filasProducto =
         [CatalogoInicial([x \in {1, 2} |-> x], [p \in Productos |-> p]).prod
            EXCEPT ![2].activo = a]
  /\ precio = [p \in Productos |-> 1]
  /\ \E S \in SUBSET LineaIds : carrito = [l \in S |-> FilasIniciales[l]]
  /\ hilos = <<>>
  /\ imagen = <<>>
  /\ archivos = {}

\* What a call on the cart leaves becomes the next state.
EscribirCarrito(r) ==
  /\ \A p \in DOMAIN r.stock : r.stock[p] <= MaxStock
  /\ stock' = r.stock
  /\ carrito' = r.carrito
  /\ UNCHANGED <<varsOrden, varsCatalogo, precio, hilos>>

\* A caller awaits Carrito.create for user u, product p and quantity q;
\* l is the id the row would get.
AgregarLinea(l, u, p, q, cp) ==
  LET r == carritoCreate(stock, carrito, filasProducto, precio, l, u, p, q, cp)
  IN /\ l \notin DOMAIN carrito
     /\ \A x \in DOMAIN carrito : x < l
     /\ EscribirCarrito(r)
     /\ ult' = Llamada("carrito.create", p, ToString(u), r.err, r.ret)

\* A caller loads row l and awaits item.update({cantidad: n}).
ActualizarLinea(l, n, cp) ==
  LET r == carritoSave(stock, carrito, filasProducto, precio, l, n, cp)
  IN /\ l \in DOMAIN carrito
     /\ EscribirCarrito(r)
     /\ ult' = Llamada("carrito.update", l, "nada", r.err, r.ret)

\* A caller loads row l and awaits item.actualizarCantidad(n).
ActualizarCantidad(l, n) ==
  LET r == actualizarCantidad(stock, carrito, filasProducto, precio, l, n)
  IN /\ l \in DOMAIN carrito
     /\ EscribirCarrito(r)
     /\ ult' = Llamada("actualizarCantidad", l, "nada", r.err, r.ret)

\* A caller loads row l and awaits item.destroy().
EliminarLinea(l) ==
  LET r == carritoDestroy(stock, carrito, l)
  IN /\ l \in DOMAIN carrito
     /\ EscribirCarrito(r)
     /\ ult' = Llamada("carrito.destroy", l, "nada", r.err, r.ret)

\* A caller awaits Carrito.vaciarCarrito(u).
VaciarCarrito(u) ==
  LET r == vaciarCarrito(stock, carrito, u)
  IN /\ EscribirCarrito(r)
     /\ ult' = Llamada("vaciarCarrito", u, "nada", r.err, r.ret)

\* A caller awaits Carrito.obtenerTotalCarrito(u).
ObtenerTotalCarrito(u) ==
  LET r == obtenerTotalCarrito(stock, carrito, u)
  IN /\ EscribirCarrito(r)
     /\ ult' = Llamada("obtenerTotalCarrito", u, "nada", r.err, r.ret)

\* A caller loads product p and awaits producto.update({precio: v}):
\* Producto has no update hook.
CambiarPrecio(p, v) ==
  /\ precio' = [precio EXCEPT ![p] = v]
  /\ ult' = Llamada("producto.update precio", p, "nada", SinError, "nada")
  /\ UNCHANGED <<stock, carrito, varsOrden, varsCatalogo, hilos>>

\* A caller awaits checkout(u); o is the id the order would get.
Checkout(u) ==
  LET r == checkout(stock, carrito, u)
      o == Cardinality(DOMAIN estado) + 1
      Con(f, v) == [x \in DOMAIN f \union {o} |-> IF x = o THEN v ELSE f[x]]
  IN /\ \A p \in DOMAIN r.stock : r.stock[p] <= MaxStock
     /\ stock' = r.stock
     /\ carrito' = r.carrito
     /\ IF r.err = SinError
        THEN /\ estado' = Con(estado, "pendiente")
             /\ fechaPago' = Con(fechaPago, Nulo)
             /\ fechaEnvio' = Con(fechaEnvio, Nulo)
             /\ fechaEntrega' = Con(fechaEntrega, Nulo)
             /\ detalles' = Con(detalles, r.lineas)
             /\ total' = Con(total, totalDeLineas(r.lineas))
             /\ UNCHANGED reloj
        ELSE UNCHANGED varsOrden
     /\ ult' = Llamada("checkout", u, "nada", r.err, "nada")
     /\ UNCHANGED <<varsCatalogo, precio, hilos>>

NextCarrito ==
  \/ \E l \in LineaIds, u \in Usuarios, p \in ProductoIds, q \in CantidadesLinea, cp \in Copias :
       AgregarLinea(l, u, p, q, cp)
  \/ \E l \in LineaIds, n \in CantidadesLinea, cp \in Copias : ActualizarLinea(l, n, cp)
  \/ \E l \in LineaIds, n \in CantidadesLinea : ActualizarCantidad(l, n)
  \/ \E l \in LineaIds : EliminarLinea(l)
  \/ \E u \in Usuarios : VaciarCarrito(u)
  \/ \E u \in Usuarios : ObtenerTotalCarrito(u)
  \/ \E p \in Productos, v \in Precios : CambiarPrecio(p, v)
  \/ \E u \in Usuarios : Checkout(u)

SpecCarrito == InitCarrito /\ [][NextCarrito]_vars

\* ------------------------------------------------ orders and prices

\* The lines an order may have been created with: the unit price of a line
\* is the price its product had then, any of Precios.
LineaConPrecio == [productoId : Productos, cantidad : 1..MaxCant, precioUnitario : Precios]
LineasConPrecio == UNION {[1..n -> LineaConPrecio] : n \in 0..MaxLineas}

InitTotal ==
  /\ stock = [p \in Productos |-> 0]
  /\ estado = [o \in Pedidos |-> "pendiente"]
  /\ fechaPago = [o \in Pedidos |-> Nulo]
  /\ fechaEnvio = [o \in Pedidos |-> Nulo]
  /\ fechaEntrega = [o \in Pedidos |-> Nulo]
  /\ detalles \in [Pedidos -> LineasConPrecio]
  /\ total = [o \in Pedidos |-> totalDeLineas(detalles[o])]
  /\ reloj = 0
  /\ ult = Llamada("ninguna", 0, "nada", SinError, "nada")
  /\ copia = 1
  /\ categorias = CatalogoInicial([x \in {1, 2} |-> x], [p \in Productos |-> p]).cat
  /\ subcategorias = CatalogoInicial([x \in {1, 2} |-> x], [p \in Productos |-> p]).sub
  /\ filasProducto = CatalogoInicial([x \in {1, 2} |-> x], [p \in Productos |-> p]).prod
  /\ precio = [p \in Productos |-> 1]
  /\ carrito = <<>>
  /\ hilos = <<>>
  /\ imagen = <<>>
  /\ archivos = {}

NextTotal ==
  \/ \E o \in Pedidos, e \in EstadosEntrada : CambiarEstado(o, e)
  \/ \E o \in Pedidos : Cancelar(o)
  \/ \E p \in Productos, v \in Precios : CambiarPrecio(p, v)

SpecTotal == InitTotal /\ [][NextTotal]_vars

\* ---------------------------------------------------- images on disk

\* The image columns the products may hold: none, or a name each.
Imagenes == UNION {[S -> Nombres] : S \in SUBSET Productos}

InitArchivos ==
  /\ stock = [p \in Productos |-> 0]
  /\ estado = <<>>
  /\ fechaPago = <<>>
  /\ fechaEnvio = <<>>
  /\ fechaEntrega = <<>>
  /\ detalles = <<>>
  /\ total = <<>>
  /\ reloj = 0
  /\ ult = Llamada("ninguna", 0, "nada", SinError, "nada")
  /\ copia = 1
  /\ categorias = CatalogoInicial([x \in {1, 2} |-> x], [p \in Productos |-> p]).cat
  /\ subcategorias = CatalogoInicial([x \in {1, 2} |-> x], [p \in Productos |-> p]).sub
  /\ filasProducto = CatalogoInicial([x \in {1, 2} |-> x], [p \in Productos |-> p]).prod
  /\ precio = [p \in Productos |-> 1]
  /\ carrito = <<>>
  /\ hilos = <<>>
  /\ imagen \in Imagenes
  /\ archivos \in SUBSET Nombres

\* A caller loads product p and awaits producto.destroy(): beforeDestroy
\* runs first, and the row is deleted only if the hook does not throw.
DestruirProducto(p) ==
  LET r == productoBeforeDestroy(archivos, imagen, p)
  IN /\ p \in DOMAIN filasProducto
     /\ archivos' = r.archivos
     /\ IF r.err # SinError
        THEN UNCHANGED <<filasProducto, imagen, stock, precio>>
        ELSE /\ filasProducto' = SinFila(filasProducto, p)
             /\ imagen' = SinFila(imagen, p)
             /\ stock' = SinFila(stock, p)
             /\ precio' = SinFila(precio, p)
     /\ ult' = Llamada("producto.destroy", p, r.intento, r.err, r.eliminado)
     /\ UNCHANGED <<varsOrden, categorias, subcategorias, copia, carrito, hilos>>

\* A caller calls deleteFile(f).
DeleteFile(f) ==
  LET r == deleteFile(archivos, f)
  IN /\ archivos' = r.archivos
     /\ ult' = Llamada("deleteFile", 0, f, r.err, r.ret)
     /\ UNCHANGED <<stock, varsOrden, categorias, subcategorias, filasProducto, copia,
                    imagen, varsCarrito, hilos>>

NextArchivos ==
  \/ \E p \in Productos : DestruirProducto(p)
  \/ \E f \in Nombres \union {NoEsCadena} : DeleteFile(f)

SpecArchivos == InitArchivos /\ [][NextArchivos]_vars

\* ------------------------------------------- requests that take stock

\* Two requests in flight, both taking stock of one product.
Hilos == {1, 2}
ProductoDisputado == 1
CantidadesPedidas == {1, 2}

\* A request before it has read anything: the quantity it asks for and the
\* stock of the product when it arrived.
Peticion(q, s) ==
  [pc |-> "inicio", cantidad |-> q, llegada |-> s, mem |-> 0, cola |-> <<>>,
   err |-> SinError]

InitConcurrente ==
  /\ \E s \in 0..MaxStock, q \in [Hilos -> CantidadesPedidas] :
       /\ q[1] + q[2] > s
       /\ stock = [p \in Productos |-> IF p = ProductoDisputado THEN s ELSE 0]
       /\ hilos = [h \in Hilos |-> Peticion(q[h], s)]
  /\ imagen = <<>>
  /\ archivos = {}
  /\ estado = <<>>
  /\ fechaPago = <<>>
  /\ fechaEnvio = <<>>
  /\ fechaEntrega = <<>>
  /\ detalles = <<>>
  /\ total = <<>>
  /\ reloj = 0
  /\ ult = Llamada("ninguna", 0, "nada", SinError, "nada")
  /\ copia = 1
  /\ categorias = CatalogoInicial([x \in {1, 2} |-> x], [p \in Productos |-> p]).cat
  /\ subcategorias = CatalogoInicial([x \in {1, 2} |-> x], [p \in Productos |-> p]).sub
  /\ filasProducto = CatalogoInicial([x \in {1, 2} |-> x], [p \in Productos |-> p]).prod
  /\ precio = [p \in Productos |-> 1]
  /\ carrito = <<>>

\* await Producto.findByPk(id): the instance holds the stock read now.
Cargar(h) ==
  /\ hilos[h].pc = "inicio"
  /\ hilos' = [hilos EXCEPT ![h].pc = "cargado", ![h].mem = stock[ProductoDisputado]]
  /\ UNCHANGED <<stock, ult, varsOrden, varsCatalogo, varsCarrito>>

\* producto.aumentarStock(cantidad) up to its first await: hayStock adds
\* the quantity to this.stock and starts a save that nobody awaits; its
\* Promise is truthy, so the method throws.  Were it falsy, the quantity
\* would be subtracted and a second save awaited.
LlamarAumentarStock(h) ==
  LET m == hilos[h].mem + hilos[h].cantidad
  IN /\ hilos[h].pc = "cargado"
     /\ hilos' = IF Truthy(hayStock(stock, ProductoDisputado, hilos[h].cantidad).ret)
                 THEN [hilos EXCEPT ![h].pc = "rechazado", ![h].mem = m,
                                    ![h].cola = <<m>>, ![h].err = ErrStockInsuficiente]
                 ELSE [hilos EXCEPT ![h].pc = "esperando",
                                    ![h].mem = m - hilos[h].cantidad,
                                    ![h].cola = <<m, m - hilos[h].cantidad>>]
     /\ UNCHANGED <<stock, ult, varsOrden, varsCatalogo, varsCarrito>>

\* The UPDATE of a started save reaches the database: SET stock = the
\* value of the instance, whatever the row holds by now.
Guardar(h) ==
  /\ hilos[h].cola # <<>>
  /\ stock' = ProductoSave(stock, ProductoDisputado, Head(hilos[h].cola))
  /\ hilos' = [hilos EXCEPT ![h].cola = Tail(hilos[h].cola),
                            ![h].pc = IF hilos[h].pc = "esperando" /\ Len(hilos[h].cola) = 1
                                      THEN "hecho" ELSE hilos[h].pc]
  /\ UNCHANGED <<ult, varsOrden, varsCatalogo, varsCarrito>>

NextConcurrente ==
  \/ \E h \in Hilos : Cargar(h)
  \/ \E h \in Hilos : LlamarAumentarStock(h)
  \/ \E h \in Hilos : Guardar(h)

SpecConcurrente == InitConcurrente /\ [][NextConcurrente]_vars

\* ------------------------------------------ two cancels of one order

\* The order the calls in flight are about.
PedidoEnCurso == 1

\* Two calls of cancelar on order 1, whose one line is of the disputed
\* product; the order is pendiente or pagado.
InitCancelar ==
  /\ \E s \in 0..MaxStock, q \in CantidadesPedidas, e \in {"pendiente", "pagado"} :
       /\ stock = [p \in Productos |-> IF p = ProductoDisputado THEN s ELSE 0]
       /\ hilos = [h \in Hilos |-> [Peticion(q, s) EXCEPT !.pc = "pedido"]]
       /\ estado = [o \in Pedidos |-> e]
       /\ detalles = [o \in Pedidos |->
                       <<[productoId |-> ProductoDisputado, cantidad |-> q,
                          precioUnitario |-> 1]>>]
       /\ total = [o \in Pedidos |-> q]
  /\ fechaPago = [o \in Pedidos |-> Nulo]
  /\ fechaEnvio = [o \in Pedidos |-> Nulo]
  /\ fechaEntrega = [o \in Pedidos |-> Nulo]
  /\ reloj = 0
  /\ ult = Llamada("ninguna", 0, "nada", SinError, "nada")
  /\ copia = 1
  /\ categorias = CatalogoInicial([x \in {1, 2} |-> x], [p \in Productos |-> p]).cat
  /\ subcategorias = CatalogoInicial([x \in {1, 2} |-> x], [p \in Productos |-> p]).sub
  /\ filasProducto = CatalogoInicial([x \in {1, 2} |-> x], [p \in Productos |-> p]).prod
  /\ precio = [p \in Productos |-> 1]
  /\ carrito = <<>>
  /\ imagen = <<>>
  /\ archivos = {}

\* The caller loads the order and calls cancelar(): puedeSerCancelado on
\* the instance just loaded, then DetallePedido.findAll.
ComprobarCancelable(h) ==
  /\ hilos[h].pc = "pedido"
  /\ hilos' = IF puedeSerCancelado(estado[PedidoEnCurso])
              THEN [hilos EXCEPT ![h].pc = "inicio"]
              ELSE [hilos EXCEPT ![h].pc = "fin", ![h].err = ErrNoCancelable]
  /\ UNCHANGED <<varsPedido, ult, varsCatalogo, varsCarrito>>

\* The end of cancelar: the error of aumentarStock leaves the method, or,
\* had the restitution returned, estado is set to cancelado and saved.
TerminarCancelar(h) ==
  /\ hilos[h].pc \in {"rechazado", "hecho"}
  /\ hilos' = [hilos EXCEPT ![h].pc = "fin"]
  /\ estado' = IF hilos[h].pc = "hecho"
               THEN [estado EXCEPT ![PedidoEnCurso] = "cancelado"] ELSE estado
  /\ UNCHANGED <<stock, fechaPago, fechaEnvio, fechaEntrega, detalles, reloj, total, ult,
                 varsCatalogo, varsCarrito>>

NextCancelar ==
  \/ \E h \in Hilos : ComprobarCancelable(h)
  \/ \E h \in Hilos : Cargar(h)
  \/ \E h \in Hilos : LlamarAumentarStock(h)
  \/ \E h \in Hilos : Guardar(h)
  \/ \E h \in Hilos : TerminarCancelar(h)

SpecCancelar == InitCancelar /\ [][NextCancelar]_vars

\* ------------------------------------- cambiarEstado, write by write

\* UPDATE pedidos SET the columns in which the instance inst differs from
\* what it held when loaded or last saved (prev); the other columns of the
\* row keep what the database holds.
update(fila, inst, prev) ==
  [c \in DOMAIN fila |-> IF inst[c] # prev[c] THEN inst[c] ELSE fila[c]]

\* The option hooks of the save() that beforeUpdate itself calls.
HooksDelSaveInterno == FALSE

\* A save inside the hook that writes the status and leaves the date to a
\* later write.
saveEnGanchoSoloEstado(fila, inst, prev) ==
  update(fila, [prev EXCEPT !.estado = inst.estado], prev)

\* await pedido.save({hooks: false}) inside beforeUpdate: one UPDATE with
\* every changed column, the status and the date just assigned.
saveEnGancho(fila, inst, prev) == update(fila, inst, prev)

\* A call of cambiarEstado on order 1 before it has loaded the row.
LlamadaEstado ==
  [pc |-> "inicio", inst |-> Fila("pendiente", Nulo, Nulo, Nulo),
   prev |-> Fila("pendiente", Nulo, Nulo, Nulo), ganchos |-> 0, err |-> SinError]

InitPasos ==
  /\ stock = [p \in Productos |-> 0]
  /\ estado = [o \in Pedidos |-> "pendiente"]
  /\ fechaPago = [o \in Pedidos |-> Nulo]
  /\ fechaEnvio = [o \in Pedidos |-> Nulo]
  /\ fechaEntrega = [o \in Pedidos |-> Nulo]
  /\ detalles = [o \in Pedidos |-> <<>>]
  /\ total = [o \in Pedidos |-> 0]
  /\ reloj = 0
  /\ ult = Llamada("ninguna", 0, "nada", SinError, "nada")
  /\ copia = 1
  /\ categorias = CatalogoInicial([x \in {1, 2} |-> x], [p \in Productos |-> p]).cat
  /\ subcategorias = CatalogoInicial([x \in {1, 2} |-> x], [p \in Productos |-> p]).sub
  /\ filasProducto = CatalogoInicial([x \in {1, 2} |-> x], [p \in Productos |-> p]).prod
  /\ precio = [p \in Productos |-> 1]
  /\ carrito = <<>>
  /\ hilos = [h \in Hilos |-> LlamadaEstado]
  /\ imagen = <<>>
  /\ archivos = {}

\* The row of the order is written as g; the clock moves when sella.
EscribirPaso(g, sella) ==
  /\ estado' = [estado EXCEPT ![PedidoEnCurso] = g.estado]
  /\ fechaPago' = [fechaPago EXCEPT ![PedidoEnCurso] = g.fechaPago]
  /\ fechaEnvio' = [fechaEnvio EXCEPT ![PedidoEnCurso] = g.fechaEnvio]
  /\ fechaEntrega' = [fechaEntrega EXCEPT ![PedidoEnCurso] = g.fechaEntrega]
  /\ reloj' = IF sella THEN reloj + 1 ELSE reloj
  /\ UNCHANGED <<stock, detalles, total, ult, varsCatalogo, varsCarrito>>

\* await Pedido.findByPk(id): the instance holds the row as it is now.
CargarPedido(h) ==
  /\ hilos[h].pc \in {"inicio", "fin"}
  /\ hilos' = [hilos EXCEPT ![h] = [pc |-> "cargado", inst |-> FilaDe(PedidoEnCurso),
                                    prev |-> FilaDe(PedidoEnCurso), ganchos |-> 0,
                                    err |-> SinError]]
  /\ UNCHANGED <<varsPedido, ult, varsCatalogo, varsCarrito>>

\* pedido.cambiarEstado(e) up to the first await of save(): the check of
\* estadosValidos, the assignment, the validation of the column.
LlamarCambiarEstado(h, e) ==
  /\ hilos[h].pc = "cargado"
  /\ hilos' =
       IF ~EsEstadoValido(e)
       THEN [hilos EXCEPT ![h].pc = "fin", ![h].err = ErrEstadoNoValido]
       ELSE IF e # hilos[h].prev.estado /\ e \notin EstadosEnum
       THEN [hilos EXCEPT ![h].pc = "fin", ![h].err = ErrEstadoIsIn]
       ELSE [hilos EXCEPT ![h].pc = "gancho", ![h].inst.estado = e]
  /\ UNCHANGED <<varsPedido, ult, varsCatalogo, varsCarrito>>

\* beforeUpdate runs: when estado changed into pagado, enviado or
\* entregado it assigns the date and awaits its own save; after that save
\* nothing of the instance counts as changed.
Gancho(h) ==
  LET i == hilos[h].inst
      cambio == i.estado # hilos[h].prev.estado
      j == beforeUpdate(i, cambio, reloj + 1)
      sella == j # i
  IN /\ hilos[h].pc = "gancho"
     /\ sella => reloj < MaxReloj
     /\ EscribirPaso(IF sella THEN saveEnGancho(FilaDe(PedidoEnCurso), j, hilos[h].prev)
                     ELSE FilaDe(PedidoEnCurso), sella)
     /\ hilos' = [hilos EXCEPT ![h].pc = "update", ![h].inst = j,
                               ![h].prev = IF sella THEN j ELSE hilos[h].prev,
                               ![h].ganchos = hilos[h].ganchos + 1
                                 + (IF sella /\ HooksDelSaveInterno THEN 1 ELSE 0)]

\* The rest of the outer save(): the UPDATE of whatever is still changed;
\* nothing is sent when nothing is.
Actualizar(h) ==
  /\ hilos[h].pc = "update"
  /\ EscribirPaso(update(FilaDe(PedidoEnCurso), hilos[h].inst, hilos[h].prev), FALSE)
  /\ hilos' = [hilos EXCEPT ![h].pc = "fin", ![h].prev = hilos[h].inst]

NextPasos ==
  \/ \E h \in Hilos : CargarPedido(h)
  \/ \E h \in Hilos, e \in EstadosEntrada : LlamarCambiarEstado(h, e)
  \/ \E h \in Hilos : Gancho(h)
  \/ \E h \in Hilos : Actualizar(h)

SpecPasos == InitPasos /\ [][NextPasos]_vars

\* ======================================================== stated properties

\* The status transitions of the order life cycle: pending -> paid ->
\* shipped -> delivered, and pending or paid -> cancelled.
TransicionesPermitidas ==
  { <<"pendiente", "pagado">>, <<"pagado", "enviado">>, <<"enviado", "entregado">>,
    <<"pendiente", "cancelado">>, <<"pagado", "cancelado">> }

\* The five statuses of the order life cycle.
CincoEstados == {"pendiente", "pagado", "enviado", "entregado", "cancelado"}

\* The sum of the quantities of the lines of lineas that name product p.
RECURSIVE SumaLineas(_, _)
SumaLineas(lineas, p) ==
  IF lineas = <<>> THEN 0
  ELSE (IF Head(lineas).productoId = p THEN Head(lineas).cantidad ELSE 0)
       + SumaLineas(Tail(lineas), p)

\* C1: every product's stock is >= 0 in every state, and a decrease of the
\* stock (the method documented "reducir el stock", aumentarStock) by more
\* than the stock is rejected and leaves every stock as it was.
C1_StockNuncaNegativo ==
  [][ /\ \A p \in Productos : stock'[p] >= 0
      /\ \A p \in Productos, q \in 1..MaxCant :
           (AumentarStock(p, q) /\ q > stock[p])
             => (ult'.err # SinError /\ stock' = stock) ]_vars

\* C2: a decrease of the stock by q fails with "Stock insuficiente" exactly
\* when q > stock, and otherwise succeeds and leaves stock - q.
C2_ReducirStock ==
  [][ \A p \in Productos, q \in 1..MaxCant :
        AumentarStock(p, q)
          => /\ (ult'.err = ErrStockInsuficiente) <=> (q > stock[p])
             /\ (q <= stock[p])
                  => (ult'.err = SinError /\ stock' = [stock EXCEPT ![p] = @ - q]) ]_vars

\* C3: aumentarStock(q) with q >= 0 never fails and leaves stock + q.
C3_AumentarStock ==
  [][ \A p \in Productos, q \in 0..MaxCant :
        AumentarStock(p, q)
          => (ult'.err = SinError /\ stock' = [stock EXCEPT ![p] = @ + q]) ]_vars

\* C4: hayStock(q) returns true exactly when q <= stock and leaves the
\* stored stock as it was, for every q and every stock.
C4_HayStockPuro ==
  [][ \A p \in Productos, q \in Cantidades :
        HayStock(p, q)
          => /\ stock' = stock
             /\ ult'.ret = (IF q <= stock[p] THEN "true" ELSE "false") ]_vars

\* C5: cambiarEstado succeeds only on a permitted transition; on every
\* other pair (old status, new status) of two different statuses it is
\* rejected and the stored status is unchanged.
C5_SoloTransicionesPermitidas ==
  [][ \A o \in Pedidos, e \in EstadosEntrada :
        (CambiarEstado(o, e) /\ e # estado[o]
           /\ <<estado[o], e>> \notin TransicionesPermitidas)
          => (ult'.err # SinError /\ estado'[o] = estado[o]) ]_vars

\* C6: once the status of an order is delivered or cancelled, no call
\* changes it again.
C6_EstadosTerminales ==
  [][ \A o \in Pedidos :
        estado[o] \in {"entregado", "cancelado"} => estado'[o] = estado[o] ]_vars

\* C7: cambiarEstado with a new status that is none of the five known
\* values fails with the invalid-status error of cambiarEstado and leaves the
\* order's status and its three dates unchanged.
C7_EstadoDesconocidoRechazado ==
  [][ \A o \in Pedidos, e \in EstadosEntrada \ CincoEstados :
        CambiarEstado(o, e)
          => /\ ult'.err = ErrEstadoNoValido
             /\ estado'[o] = estado[o]
             /\ fechaPago'[o] = fechaPago[o]
             /\ fechaEnvio'[o] = fechaEnvio[o]
             /\ fechaEntrega'[o] = fechaEntrega[o] ]_vars

\* C7 witness: a call of cambiarEstado with a status outside the five was
\* made and was rejected with the invalid-status error.
C7_Witness ==
  /\ ult.op = "cambiarEstado"
  /\ ult.nuevo \notin CincoEstados
  /\ ult.err = ErrEstadoNoValido

\* C8: for an order in status shipped, cambiarEstado(delivered) succeeds,
\* the stored status becomes delivered and fechaEntrega is set.
C8_EntregadoAlcanzable ==
  [][ \A o \in Pedidos :
        (CambiarEstado(o, "entregado") /\ estado[o] = "enviado")
          => /\ ult'.err = SinError
             /\ estado'[o] = "entregado"
             /\ fechaEntrega'[o] # Nulo ]_vars

\* C9: a permitted transition into paid sets fechaPago, into shipped sets
\* fechaEnvio, into delivered sets fechaEntrega, each to the instant of the
\* call and leaving the other two dates unchanged; a transition into
\* cancelled sets none of the three.
C9_FechasPorTransicion ==
  [][ \A o \in Pedidos, e \in CincoEstados :
        (CambiarEstado(o, e) /\ <<estado[o], e>> \in TransicionesPermitidas)
          => /\ fechaPago'[o] = (IF e = "pagado" THEN Fecha(reloj') ELSE fechaPago[o])
             /\ fechaEnvio'[o] = (IF e = "enviado" THEN Fecha(reloj') ELSE fechaEnvio[o])
             /\ fechaEntrega'[o] = (IF e = "entregado" THEN Fecha(reloj') ELSE fechaEntrega[o])
             /\ (e # "cancelado") => reloj' = reloj + 1 ]_vars

\* C10: cancelar on an order that can be cancelled (pending or paid)
\* succeeds, adds to each product's stock exactly the sum of the quantities
\* of the order's lines for that product, and leaves the order cancelled.
C10_CancelarDevuelveStock ==
  [][ \A o \in Pedidos :
        (Cancelar(o) /\ puedeSerCancelado(estado[o]))
          => /\ ult'.err = SinError
             /\ estado'[o] = "cancelado"
             /\ \A p \in Productos :
                  stock'[p] = stock[p] + SumaLineas(detalles[o], p) ]_vars

\* C11: cancelar is let through exactly when the order is pending or paid:
\* on an order that is shipped, delivered or cancelled (a second cancel
\* included) it fails with the cannot-cancel error and changes neither the
\* order nor any stock; on a pending or paid order it is not refused with
\* that error.
C11_CancelarSoloPendienteOPagado ==
  [][ \A o \in Pedidos :
        Cancelar(o)
          => IF estado[o] \in {"pendiente", "pagado"}
             THEN ult'.err # ErrNoCancelable
             ELSE /\ ult'.err = ErrNoCancelable
                  /\ stock' = stock
                  /\ <<estado', fechaPago', fechaEnvio', fechaEntrega', detalles'>>
                       = <<estado, fechaPago, fechaEnvio, fechaEntrega, detalles>> ]_vars

\* C11 witness: cancelar was called on a cancelled order and was refused.
C11_Witness ==
  /\ ult.op = "cancelar"
  /\ ult.err = ErrNoCancelable
  /\ \E o \in DOMAIN estado : estado[o] = "cancelado"

\* C12: cancelar is atomic: when it fails, no product's stock has changed
\* and the order's status is unchanged.
C12_CancelarAtomico ==
  [][ \A o \in Pedidos :
        (Cancelar(o) /\ ult'.err # SinError)
          => (stock' = stock /\ estado' = estado) ]_vars

\* C13: every pedido.destroy() fails with an error, the order still exists
\* afterwards with its fields unchanged, and the set of orders never shrinks.
C13_PedidoNoSeElimina ==
  [][ /\ DOMAIN estado \subseteq DOMAIN estado'
      /\ \A o \in Pedidos :
           Destroy(o)
             => /\ ult'.err # SinError
                /\ o \in DOMAIN estado'
                /\ <<estado', fechaPago', fechaEnvio', fechaEntrega', detalles'>>
                     = <<estado, fechaPago, fechaEnvio, fechaEntrega, detalles>> ]_vars

\* C13 witness: destroy was called on an order and threw.
C13_Witness ==
  /\ ult.op = "destroy"
  /\ ult.err = ErrNoEliminar
  /\ DOMAIN estado = Pedidos

\* The subcategories and the products under category c.
SubsBajo(c) == {x \in DOMAIN subcategorias : subcategorias[x].categoriaId = c}
ProdsBajo(c) ==
  {p \in DOMAIN filasProducto :
     \/ filasProducto[p].categoriaId = c
     \/ filasProducto[p].subcategoriaId \in SubsBajo(c)}

\* C14: after a successful update of an active category c to inactive, c,
\* every subcategory whose categoriaId is c and every product under c are
\* inactive, and no category, subcategory or product outside the subtree of
\* c changes its activo.
C14_DesactivarCategoria ==
  [][ \A c \in CatIds, falla \in Fallas :
        ( /\ ult'.op = "categoria.update"
          /\ ult'.cant = c
          /\ ult'.err = SinError
          /\ c \in DOMAIN categorias
          /\ categorias[c]
          /\ ActualizarCategoria(c, FALSE, falla) )
          => /\ ~categorias'[c]
             /\ \A x \in SubsBajo(c) : ~subcategorias'[x].activo
             /\ \A p \in ProdsBajo(c) : ~filasProducto'[p].activo
             /\ \A d \in DOMAIN categorias \ {c} : categorias'[d] = categorias[d]
             /\ \A x \in DOMAIN subcategorias \ SubsBajo(c) :
                  subcategorias'[x] = subcategorias[x]
             /\ \A p \in DOMAIN filasProducto \ ProdsBajo(c) :
                  filasProducto'[p] = filasProducto[p]
             /\ DOMAIN subcategorias' = DOMAIN subcategorias ]_vars

\* A category was deactivated with success; a subcategory and a product
\* under it are inactive while the other category still has an active
\* subcategory and an active product.
C14_Witness ==
  /\ ult.op = "categoria.update"
  /\ ult.nuevo = "false"
  /\ ult.err = SinError
  /\ ~categorias[ult.cant]
  /\ \E x \in SubsBajo(ult.cant) : ~subcategorias[x].activo
  /\ \E p \in ProdsBajo(ult.cant) : ~filasProducto[p].activo
  /\ \E d \in DOMAIN categorias \ {ult.cant} :
       /\ categorias[d]
       /\ \E x \in SubsBajo(d) : subcategorias[x].activo
       /\ \E p \in ProdsBajo(d) : filasProducto[p].activo

\* The active subcategories and products under category c, and the active
\* products of subcategory s: the rows a deactivation has to update.
DescendientesDeCategoria(c) ==
  ({"sub"} \X {x \in SubsBajo(c) : subcategorias[x].activo})
    \union ({"prod"} \X {p \in ProdsBajo(c) : filasProducto[p].activo})
DescendientesDeSubcategoria(s) ==
  {"prod"} \X {p \in DOMAIN filasProducto :
                 filasProducto[p].subcategoriaId = s /\ filasProducto[p].activo}

\* C15: when the update of one descendant is rejected while an active
\* category or an active subcategory is being deactivated, the call fails
\* and the category or subcategory and all its descendants keep their activo.
C15_TodoONada ==
  [][ /\ \A c \in DOMAIN categorias :
           \A falla \in DescendientesDeCategoria(c) :
             ( /\ ult'.op = "categoria.update"
               /\ ult'.cant = c
               /\ categorias[c]
               /\ ActualizarCategoria(c, FALSE, falla) )
               => /\ ult'.err # SinError
                  /\ <<categorias', subcategorias', filasProducto'>>
                       = <<categorias, subcategorias, filasProducto>>
      /\ \A s \in DOMAIN subcategorias :
           \A falla \in DescendientesDeSubcategoria(s) :
             ( /\ ult'.op = "subcategoria.update"
               /\ ult'.cant = s
               /\ subcategorias[s].activo
               /\ ActualizarSubcategoria(s, FALSE, falla) )
               => /\ ult'.err # SinError
                  /\ <<categorias', subcategorias', filasProducto'>>
                       = <<categorias, subcategorias, filasProducto>> ]_vars

\* The deactivation of a category failed on the update of a product while
\* the category has an active subcategory; all of them are still active.
C15_Witness ==
  /\ ult.op = "categoria.update"
  /\ ult.nuevo = "false"
  /\ ult.err = ErrBD
  /\ ult.ret = "prod"
  /\ categorias[ult.cant]
  /\ \E x \in SubsBajo(ult.cant) : subcategorias[x].activo
  /\ \E p \in ProdsBajo(ult.cant) : filasProducto[p].activo

\* C16: after a successful update of an active subcategory s to inactive,
\* s is inactive and every product whose subcategoriaId is s is inactive.
C16_DesactivarSubcategoria ==
  [][ \A s \in DOMAIN subcategorias, falla \in Fallas :
        ( /\ ult'.op = "subcategoria.update"
          /\ ult'.cant = s
          /\ ult'.err = SinError
          /\ subcategorias[s].activo
          /\ ActualizarSubcategoria(s, FALSE, falla) )
          => /\ ~subcategorias'[s].activo
             /\ \A p \in DOMAIN filasProducto' :
                  filasProducto'[p].subcategoriaId = s => ~filasProducto'[p].activo ]_vars

\* A subcategory was deactivated with success and a product of it, which
\* belongs to a category with another id, is inactive.
C16_Witness ==
  /\ ult.op = "subcategoria.update"
  /\ ult.nuevo = "false"
  /\ ult.err = SinError
  /\ ~subcategorias[ult.cant].activo
  /\ categorias[subcategorias[ult.cant].categoriaId]
  /\ \E p \in DOMAIN filasProducto :
       /\ filasProducto[p].subcategoriaId = ult.cant
       /\ filasProducto[p].categoriaId # ult.cant
       /\ ~filasProducto[p].activo

\* C17: in every state every active product has an active subcategory and
\* an active category, and every active subcategory has an active category.
C17_JerarquiaActiva ==
  /\ \A p \in DOMAIN filasProducto :
       filasProducto[p].activo
         => /\ subcategorias[filasProducto[p].subcategoriaId].activo
            /\ categorias[filasProducto[p].categoriaId]
  /\ \A x \in DOMAIN subcategorias :
       subcategorias[x].activo => categorias[subcategorias[x].categoriaId]

\* C18: the update of an inactive category to active changes no
\* subcategory and no product, and the update of an inactive subcategory to
\* active changes no product.
C18_ReactivarNoPropaga ==
  [][ /\ \A c \in DOMAIN categorias, falla \in Fallas :
           ( /\ ult'.op = "categoria.update"
             /\ ult'.cant = c
             /\ ~categorias[c]
             /\ ActualizarCategoria(c, TRUE, falla) )
             => <<subcategorias', filasProducto'>> = <<subcategorias, filasProducto>>
      /\ \A s \in DOMAIN subcategorias, falla \in Fallas :
           ( /\ ult'.op = "subcategoria.update"
             /\ ult'.cant = s
             /\ ~subcategorias[s].activo
             /\ ActualizarSubcategoria(s, TRUE, falla) )
             => filasProducto' = filasProducto ]_vars

\* A category was reactivated with success while a subcategory and a
\* product under it are still inactive.
C18_Witness ==
  /\ ult.op = "categoria.update"
  /\ ult.nuevo = "true"
  /\ ult.err = SinError
  /\ categorias[ult.cant]
  /\ \E x \in SubsBajo(ult.cant) : ~subcategorias[x].activo
  /\ \E p \in ProdsBajo(ult.cant) : ~filasProducto[p].activo

\* C19: the update to active of an inactive subcategory whose category is
\* inactive, or of an inactive product whose subcategory or category is
\* inactive, fails and leaves the row inactive.
C19_ReactivarBloqueado ==
  [][ /\ \A s \in DOMAIN subcategorias :
           ( /\ ~subcategorias[s].activo
             /\ ~categorias[subcategorias[s].categoriaId]
             /\ ActualizarSubcategoria(s, TRUE, <<"ninguna", 0>>) )
             => (ult'.err # SinError /\ ~subcategorias'[s].activo)
      /\ \A p \in DOMAIN filasProducto :
           ( /\ ~filasProducto[p].activo
             /\ \/ ~subcategorias[filasProducto[p].subcategoriaId].activo
                \/ ~categorias[filasProducto[p].categoriaId]
             /\ ActualizarProducto(p, TRUE, <<"ninguna", 0>>) )
             => (ult'.err # SinError /\ ~filasProducto'[p].activo) ]_vars

\* C20: the creation of a subcategory under category c succeeds and adds
\* the row s, active, when c exists and is active; it fails and adds no
\* subcategory when c does not exist or is inactive.
C20_CrearSubcategoria ==
  [][ \A s \in SubIds, c \in CatIds :
        CrearSubcategoria(s, c)
          => IF c \in DOMAIN categorias /\ categorias[c]
             THEN /\ ult'.err = SinError
                  /\ DOMAIN subcategorias' = DOMAIN subcategorias \union {s}
                  /\ subcategorias'[s] = [categoriaId |-> c, activo |-> TRUE]
                  /\ \A x \in DOMAIN subcategorias : subcategorias'[x] = subcategorias[x]
             ELSE /\ ult'.err # SinError
                  /\ subcategorias' = subcategorias ]_vars

\* The creation of a subcategory under an existing but inactive category
\* was refused and no subcategory was added.
C20_Witness ==
  /\ ult.op = "subcategoria.create"
  /\ ult.err = ErrCategoriaInactiva
  /\ ult.cant \in DOMAIN categorias
  /\ ~categorias[ult.cant]
  /\ DOMAIN subcategorias = {1, 2}

\* C21: the creation of a product succeeds and adds the row, active, when
\* its subcategory exists and is active, its category exists and is active
\* and the subcategory belongs to that category; otherwise it fails and
\* adds no product.
C21_CrearProducto ==
  [][ \A p \in ProductoIds, s \in SubIds, c \in CatIds :
        CrearProducto(p, s, c)
          => IF /\ s \in DOMAIN subcategorias
                /\ subcategorias[s].activo
                /\ c \in DOMAIN categorias
                /\ categorias[c]
                /\ subcategorias[s].categoriaId = c
             THEN /\ ult'.err = SinError
                  /\ DOMAIN filasProducto' = DOMAIN filasProducto \union {p}
                  /\ filasProducto'[p]
                       = [subcategoriaId |-> s, categoriaId |-> c, activo |-> TRUE]
             ELSE /\ ult'.err # SinError
                  /\ filasProducto' = filasProducto ]_vars

\* C22: while a subcategory is inactive, as every subcategory of a
\* deactivated category is until it is reactivated itself, the creation of
\* a product under it fails and adds no product, whether or not the
\* category is active again.
C22_CrearBajoInactiva ==
  [][ \A p \in ProductoIds, s \in SubIds, c \in CatIds :
        ( /\ ult'.op = "producto.create"
          /\ s \in DOMAIN subcategorias
          /\ ~subcategorias[s].activo
          /\ CrearProducto(p, s, c) )
          => /\ ult'.err # SinError
             /\ filasProducto' = filasProducto ]_vars

\* The creation of a product was refused under a subcategory that is
\* still inactive while its category is active again.
C22_Witness ==
  /\ ult.op = "producto.create"
  /\ ult.err # SinError
  /\ ult.cant \in DOMAIN subcategorias
  /\ ~subcategorias[ult.cant].activo
  /\ categorias[subcategorias[ult.cant].categoriaId]
  /\ \E p \in DOMAIN filasProducto :
       filasProducto[p].subcategoriaId = ult.cant /\ ~filasProducto[p].activo

\* User u has a line for product p in the rows C.
TieneLinea(C, u, p) ==
  \E x \in DOMAIN C : C[x].usuarioId = u /\ C[x].productoId = p

\* C23: adding a line fails when the product does not exist or is
\* inactive, fails with the insufficient-stock error when the quantity
\* exceeds the stock, and inserts a line with that quantity when the
\* product exists, is active, has the stock and the user has no line for it.
C23_AgregarLinea ==
  [][ \A l \in LineaIds, u \in Usuarios, p \in ProductoIds, q \in CantidadesLinea \ {0},
         cp \in Copias :
        AgregarLinea(l, u, p, q, cp)
          => IF p \notin DOMAIN filasProducto \/ ~filasProducto[p].activo
             THEN ult'.err # SinError /\ carrito' = carrito
             ELSE IF q > stock[p]
             THEN ult'.err = ErrStockCarrito /\ carrito' = carrito
             ELSE ~TieneLinea(carrito, u, p)
                    => /\ ult'.err = SinError
                       /\ DOMAIN carrito' = DOMAIN carrito \union {l}
                       /\ carrito'[l].usuarioId = u
                       /\ carrito'[l].productoId = p
                       /\ carrito'[l].cantidad = q ]_vars

C25_PrecioCongelado ==
  [][ /\ \A l \in DOMAIN carrito \cap DOMAIN carrito' :
           carrito'[l].precioUnitario = carrito[l].precioUnitario
      /\ \A l \in DOMAIN carrito' \ DOMAIN carrito :
           carrito'[l].precioUnitario = precio[carrito'[l].productoId] ]_vars

\* The quantity of a row was changed while its unit price is not the
\* present price of its product.
C25_Witness ==
  /\ ult.op = "carrito.update"
  /\ ult.err = SinError
  /\ ult.cant \in DOMAIN carrito
  /\ carrito[ult.cant].cantidad # FilasIniciales[ult.cant].cantidad
  /\ carrito[ult.cant].precioUnitario # precio[carrito[ult.cant].productoId]

\* C26: actualizarCantidad(n) stores n when n does not exceed the
\* product's stock, and fails with the insufficient-stock error, the stored
\* quantity unchanged, when it does.
C26_ActualizarCantidad ==
  [][ \A l \in LineaIds, n \in CantidadesLinea \ {0} :
        ActualizarCantidad(l, n)
          => IF n <= stock[carrito[l].productoId]
             THEN ult'.err = SinError /\ carrito'[l].cantidad = n
             ELSE ult'.err = ErrStockCarrito /\ carrito' = carrito ]_vars

\* C27: creating, updating, deleting a row of carritos and emptying a cart
\* leave every product's stock as it was, whether they succeed or fail.
C27_CarritoNoTocaStock ==
  [][ ult'.op \in {"carrito.create", "carrito.update", "actualizarCantidad",
                   "carrito.destroy", "vaciarCarrito"}
        => stock' = stock ]_vars

\* C28: obtenerTotalCarrito(u) returns the sum of precioUnitario *
\* cantidad over the rows of user u and of no other user, 0 without rows.
C28_TotalCarrito ==
  [][ \A u \in Usuarios :
        ObtenerTotalCarrito(u)
          => /\ ult'.err = SinError
             /\ ult'.ret = ToString(sumaSubtotales(carrito, lineasDeUsuario(carrito, u))) ]_vars

\* The quantity the cart rows of user u hold of product p.
CantidadEnCarrito(C, u, p) ==
  IF TieneLinea(C, u, p)
  THEN C[CHOOSE l \in DOMAIN C : C[l].usuarioId = u /\ C[l].productoId = p].cantidad
  ELSE 0

\* C29: checkout is all or nothing: either a new order in status
\* pendiente holds one line per cart row of the user (same product, quantity,
\* unit price), every product's stock went down by the quantity of its row
\* and the user's cart is empty, or no order was created, no stock changed
\* and the cart is as it was.
C29_CheckoutAtomico ==
  [][ \A u \in Usuarios :
        Checkout(u)
          => \/ /\ stock' = stock
                /\ carrito' = carrito
                /\ estado' = estado
                /\ detalles' = detalles
             \/ /\ \E o \in DOMAIN estado' \ DOMAIN estado :
                      /\ estado'[o] = "pendiente"
                      /\ detalles'[o] = lineasDePedido(carrito, lineasDeUsuario(carrito, u))
                /\ \A p \in Productos :
                      stock'[p] = stock[p] - CantidadEnCarrito(carrito, u, p)
                /\ lineasDeUsuario(carrito', u) = {} ]_vars

\* Both requests have been answered and no write of theirs is in flight.
Terminados ==
  \A h \in DOMAIN hilos : hilos[h].pc \in {"rechazado", "hecho"} /\ hilos[h].cola = <<>>

\* The requests that took their quantity.
Logrados == {h \in DOMAIN hilos : hilos[h].pc = "hecho"}

\* C30: of two concurrent requests for one product whose quantities
\* together exceed its stock at most one succeeds and the other fails with
\* the insufficient-stock error; the stock is never negative, and once both
\* are done it is the stock at arrival minus the quantity of the request
\* that succeeded.
C30_DosPeticiones ==
  /\ stock[ProductoDisputado] >= 0
  /\ Terminados
       => /\ Cardinality(Logrados) <= 1
          /\ \A h \in DOMAIN hilos \ Logrados : hilos[h].err = ErrStockInsuficiente
          /\ \A h \in DOMAIN hilos :
               stock[ProductoDisputado] =
                 hilos[h].llegada
                   - (IF Logrados = {} THEN 0 ELSE hilos[CHOOSE x \in Logrados : TRUE].cantidad)

\* C31: the total of an order is the sum of precioUnitario * cantidad
\* over its lines when the order appears and is the same ever after:
\* cambiarEstado, cancelar and a change of a product's price leave it alone.
C31_TotalFijo ==
  [][ \A o \in DOMAIN total' :
        /\ total'[o] = totalDeLineas(detalles'[o])
        /\ o \in DOMAIN total => total'[o] = total[o] ]_vars

\* After a price change and a later status change that succeeded, the
\* total of the order is not what its lines cost at the present prices.
C31_Witness ==
  /\ ult.op = "cambiarEstado"
  /\ ult.err = SinError
  /\ \E p \in Productos : precio[p] # 1
  /\ \E o \in DOMAIN total :
       /\ estado[o] = "pagado"
       /\ total[o] # totalAPrecioActual(detalles[o], precio)
       /\ total[o] = totalDeLineas(detalles[o])

\* C32: destroying a product succeeds whether or not its image could be
\* removed: the row is gone after the call and no error comes out of it;
\* for a product without an image no removal is attempted.
C32_DestruirProducto ==
  [][ \A p \in Productos :
        DestruirProducto(p)
          => /\ ult'.err = SinError
             /\ p \notin DOMAIN filasProducto'
             /\ p \notin DOMAIN imagen => ult'.nuevo = "nada" ]_vars

\* A product was destroyed although the removal of its image, which was
\* attempted, did not succeed.
C32_Witness ==
  /\ ult.op = "producto.destroy"
  /\ ult.err = SinError
  /\ ult.nuevo \in Nombres
  /\ ult.ret = "false"
  /\ ult.cant \notin DOMAIN filasProducto

\* C40: deleteFile(f) returns true only when the file f is no longer in
\* the upload directory afterwards, and returns false without throwing when
\* the file does not exist or an error occurs.
C40_DeleteFile ==
  [][ \A f \in Nombres \union {NoEsCadena} :
        DeleteFile(f)
          => /\ ult'.err = SinError
             /\ ult'.ret \in {"true", "false"}
             /\ ult'.ret = "true" => f \notin archivos'
             /\ (f \notin archivos \/ pathJoin(f) # SinError) => ult'.ret = "false" ]_vars

\* C33: what a reader of the tables can see is never half of a cascade
\* or of a checkout: no inactive category with a subcategory or product of
\* its own still active, and no stock written by a checkout that left no
\* order.
C33_SinEstadosIntermedios ==
  [][ /\ \A c \in DOMAIN categorias' :
           ~categorias'[c]
             => /\ \A x \in DOMAIN subcategorias' :
                     subcategorias'[x].categoriaId = c => ~subcategorias'[x].activo
                /\ \A p \in DOMAIN filasProducto' :
                     filasProducto'[p].categoriaId = c => ~filasProducto'[p].activo
      /\ (ult'.op = "checkout" /\ stock' # stock)
           => DOMAIN estado' # DOMAIN estado ]_vars

\* C34: the status and its date are written together: in no state, the
\* states between the writes of a call included, is a stored status pagado
\* (enviado, entregado) without its fechaPago (fechaEnvio, fechaEntrega), and
\* one call of cambiarEstado runs beforeUpdate once.
C34_EstadoYFechaJuntos ==
  /\ \A o \in DOMAIN estado :
       /\ estado[o] = "pagado" => fechaPago[o] # Nulo
       /\ estado[o] = "enviado" => fechaEnvio[o] # Nulo
       /\ estado[o] = "entregado" => fechaEntrega[o] # Nulo
  /\ \A h \in DOMAIN hilos : hilos[h].ganchos <= 1

\* A call is between the save of its hook and its own UPDATE, and the row
\* it wrote is pagado.
C34_Witness ==
  \E h \in DOMAIN hilos :
    /\ hilos[h].pc = "update"
    /\ hilos[h].ganchos = 1
    /\ hilos[h].inst.estado = "pagado"
    /\ hilos[h].inst.fechaPago # Nulo
    /\ estado[PedidoEnCurso] = "pagado"

\* C37: in every state an order that is enviado has fechaPago and
\* fechaEnvio, an order that is entregado has all three dates, and an order
\* that is pendiente has none of them.
C37_RastroDeFechas ==
  \A o \in DOMAIN estado :
    /\ estado[o] = "enviado" => fechaPago[o] # Nulo /\ fechaEnvio[o] # Nulo
    /\ estado[o] = "entregado"
         => fechaPago[o] # Nulo /\ fechaEnvio[o] # Nulo /\ fechaEntrega[o] # Nulo
    /\ estado[o] = "pendiente"
         => fechaPago[o] = Nulo /\ fechaEnvio[o] = Nulo /\ fechaEntrega[o] = Nulo

\* The calls of cancelar that are over, and those of them that succeeded.
CancelacionesTerminadas ==
  \A h \in DOMAIN hilos : hilos[h].pc = "fin" /\ hilos[h].cola = <<>>
CancelacionesLogradas == {h \in DOMAIN hilos : hilos[h].pc = "fin" /\ hilos[h].err = SinError}

\* C35: when two concurrent calls of cancelar on one pending or paid
\* order are over, at most one has succeeded and the product's stock is what
\* it was before plus the quantity of the order's line, once.
C35_DosCancelaciones ==
  CancelacionesTerminadas
    => /\ Cardinality(CancelacionesLogradas) <= 1
       /\ \A h \in DOMAIN hilos :
            stock[ProductoDisputado] =
              hilos[h].llegada + SumaLineas(detalles[PedidoEnCurso], ProductoDisputado)

\* The units of product p held by the orders os that are not cancelled.
RECURSIVE UnidadesEnPedidos(_, _, _, _)
UnidadesEnPedidos(es, det, os, p) ==
  IF os = {} THEN 0
  ELSE LET o == Primero(os)
       IN (IF es[o] # "cancelado" THEN SumaLineas(det[o], p) ELSE 0)
          + UnidadesEnPedidos(es, det, os \ {o}, p)

\* The units of product p there are: in stock and in orders not cancelled.
Unidades(st, es, det, p) == st[p] + UnidadesEnPedidos(es, det, DOMAIN es, p)

\* C36: a status change or a cancellation creates and loses no unit: for
\* every product the stock plus the quantities in the lines of the orders
\* that are not cancelled is the same before and after.
C36_ConservacionDeStock ==
  [][ ult'.op \in {"cambiarEstado", "cancelar"}
        => \A p \in Productos :
             Unidades(stock', estado', detalles', p) = Unidades(stock, estado, detalles, p) ]_vars

\* C38: the update of a subcategory s to inactive writes only s and the
\* products whose subcategoriaId is s: in the tables the call leaves in its
\* transaction the categories, the other subcategories and the products of
\* other subcategories are as they were.
C38_SoloLaSubcategoria ==
  [][ \A s \in DOMAIN subcategorias, falla \in Fallas :
        ( /\ ult'.op = "subcategoria.update"
          /\ ult'.cant = s
          /\ ult'.nuevo = "false"
          /\ falla \in FallasDe("sub", s)
          /\ ActualizarSubcategoria(s, FALSE, falla) )
          => LET r == subcategoriaUpdate(Catalogo, Catalogo, s, subcategorias[s].activo,
                                         FALSE, falla, copia, 0)
             IN /\ r.k.cat = categorias
                /\ \A x \in DOMAIN subcategorias \ {s} : r.k.sub[x] = subcategorias[x]
                /\ \A p \in DOMAIN filasProducto :
                     filasProducto[p].subcategoriaId # s => r.k.prod[p] = filasProducto[p] ]_vars

\* C39: every update of a category or a subcategory returns: the hooks
\* do not call each other without end.
C39_CascadaTermina ==
  ult.op \in {"categoria.update", "subcategoria.update"} => ult.err # ErrNoTermina

====
